---- MODULE Spec2Model ----
(***************************************************************************)
(* Crawl orchestration and reconciliation of jobSync.ai                    *)
(* (backend/app/services/crawler/__init__.py and the four platform         *)
(* adapters), as a state machine over the relational store.                *)
(*                                                                         *)
(* One crawl_source invocation runs at a time (one event loop, synchronous *)
(* store calls).  Every store call may raise; every adapter call may fail  *)
(* as a whole.                                                             *)
(***************************************************************************)
EXTENDS Integers, Sequences, FiniteSets, TLC

\* ------------------------------------------------------------------ bounds
MaxBatch  == 3       \* longest batch an adapter returns
MaxRuns   == 2       \* crawl_source invocations per behaviour
MaxFaults == 1       \* store calls that raise per behaviour
MaxFetched == 2      \* longest list of jobs handed to the filters
MaxItems  == 2       \* most anchors, postings or job elements on a page

\* --------------------------------------------------------------- constants
NoValue == "None"    \* Python None / SQL NULL

SourceIds == 1 .. 3  \* ids a caller may pass to crawl_source

\* job_sources tables the configuration API may have written (read-only to
\* the crawler).  A table is a set of rows; an id without a row is a source
\* that does not exist.
SourceTables ==
  { { [id |-> 1, scraper_type |-> "ashby",      enabled |-> TRUE],
      [id |-> 2, scraper_type |-> "custom",     enabled |-> TRUE],
      [id |-> 3, scraper_type |-> "lever",      enabled |-> FALSE] },
    { [id |-> 1, scraper_type |-> "custom",     enabled |-> TRUE],
      [id |-> 2, scraper_type |-> "greenhouse", enabled |-> TRUE] },
    { [id |-> 1, scraper_type |-> "workday",    enabled |-> TRUE],
      [id |-> 2, scraper_type |-> "lever",      enabled |-> TRUE] } }

\* Listings an adapter can return: external_id (None when the markup has no
\* data-job-id), canonical url, title (standing for the mutable fields).
Listings ==
  { [external_id |-> "e1",    url |-> "u1", title |-> "t1"],
    [external_id |-> NoValue, url |-> "u1", title |-> "t1"],
    [external_id |-> "e1",    url |-> "u2", title |-> "t2"] }

RECURSIVE SeqsUpTo(_, _)
SeqsUpTo(S, n) ==
  IF n = 0 THEN { <<>> }
  ELSE LET shorter == SeqsUpTo(S, n - 1)
       IN  shorter \cup { Append(q, x) : q \in { p \in shorter : Len(p) = n - 1 }, x \in S }

Batches == SeqsUpTo(Listings, MaxBatch)

VARIABLES
  job_sources,        \* table job_sources
  jobs,               \* table jobs: set of rows
  next_job_id,        \* AUTO_INCREMENT of jobs
  crawler_runs,       \* table crawler_runs: sequence, id = index
  pc,                 \* position of the crawl_source invocation
  source_id,          \* crawl_source argument
  caller,             \* "direct" or "all" (called from crawl_all_sources)
  run_id,             \* id returned by the crawler_runs insert
  scraper_type,       \* scraper_type of the loaded source
  batch,              \* local jobs: the batch being reconciled
  k,                  \* index of the next batch listing to store
  new_count,
  updated_count,
  crawled_job_urls,   \* the per-run seen set
  active_jobs,        \* rows fetched by the sweep still to be visited
  result,             \* value crawl_source returns
  raised,             \* TRUE when crawl_source lets an exception escape
  ca_pc,              \* position of the crawl_all_sources invocation
  ca_sources,         \* ids returned by the enabled-sources query
  ca_results,         \* local results
  ca_return,          \* value crawl_all_sources returns
  \* ---- history (observation only; never read by an action's effect)
  invocations,        \* number of crawl_source invocations so far
  faults,             \* number of store calls that raised so far
  pre_jobs,           \* jobs table when the current invocation started
  pre_runs,           \* number of crawler_runs rows at that time
  pre_faults,         \* number of raised store calls at that time
  adapter_called,     \* an adapter was invoked by the current invocation
  adapter_failed,     \* ... and its fetch failed as a whole
  store_failed,       \* batch indexes whose store raised
  sweep_failed,       \* the sweep raised
  run_writes,         \* per crawler_runs row: number of UPDATEs applied
  ca_called,          \* source ids crawl_all_sources called crawl_source with
  prev,               \* summary of the preceding crawl_source invocation
  \* ---- frames of the pure parts, each exercised by a specification of its own
  trigger_call,       \* trigger_crawl: query parameters and the call it makes
  filter_call,        \* crawl_source lines 96-140: the age and department filters
  adapter_call,       \* one adapter invocation: the page it reads, what it returns
  retention_call,     \* archive_old_jobs: its statements and the tables they touch
  event_loop,         \* two crawl_source coroutines of one source in one event loop
  crawl_call          \* crawl_source from the adapter's output to the sweep

vars == << job_sources, jobs, next_job_id, crawler_runs, pc, source_id, caller,
           run_id, scraper_type, batch, k, new_count, updated_count,
           crawled_job_urls, active_jobs, result, raised, ca_pc, ca_sources,
           ca_results, ca_return, invocations, faults, pre_jobs, pre_runs, pre_faults,
           adapter_called,
           adapter_failed, store_failed, sweep_failed, run_writes, ca_called,
           prev, trigger_call, filter_call, adapter_call,
           retention_call, event_loop, crawl_call >>

crawlerVars == << job_sources, jobs, next_job_id, crawler_runs, pc, source_id, caller,
           run_id, scraper_type, batch, k, new_count, updated_count,
           crawled_job_urls, active_jobs, result, raised, ca_pc, ca_sources,
           ca_results, ca_return, invocations, faults, pre_jobs, pre_runs, pre_faults,
           adapter_called,
           adapter_failed, store_failed, sweep_failed, run_writes, ca_called,
           prev >>
frameVars == << trigger_call, filter_call, adapter_call,
               retention_call, event_loop, crawl_call >>

storeVars == << jobs, next_job_id >>
localVars == << batch, k, new_count, updated_count, crawled_job_urls, active_jobs >>
caVars    == << ca_pc, ca_sources, ca_results, ca_return, ca_called >>
obsVars   == << pre_jobs, pre_runs, pre_faults, adapter_called, adapter_failed, store_failed,
                sweep_failed, prev >>

\* ------------------------------------------------------------ store model
\* SQL comparison: NULL never compares equal.
SqlEq(a, b) == a # NoValue /\ b # NoValue /\ a = b

ExistingRows_ExtOnly(table, sid, job) ==
  { r \in table : r.source_id = sid /\ SqlEq(r.external_id, job.external_id) }

\* check_query: SELECT id FROM jobs WHERE source_id = :source_id
\*              AND (external_id = :external_id OR url = :url)
\* with :external_id bound to job.get('external_id') or ''.
ExistingRows(table, sid, job) ==
  LET ext == IF job.external_id = NoValue THEN "" ELSE job.external_id
  IN  { r \in table : r.source_id = sid
                      /\ (SqlEq(r.external_id, ext) \/ SqlEq(r.url, job.url)) }

\* Natural key of a Listing: (source, external_id) when external_id is
\* non-empty, otherwise (source, url).
NaturalKey(sid, ext, url) ==
  IF ext \notin { NoValue, "" } THEN << sid, "external_id", ext >>
                                ELSE << sid, "url", url >>

\* Rows the unique key of jobs makes an INSERT collide with.
DuplicateKeyRows(table, sid, job) ==
  { r \in table : NaturalKey(r.source_id, r.external_id, r.url)
                    = NaturalKey(sid, job.external_id, job.url) }

InsertOnDuplicateKeyUpdate_AlwaysInsert(table, nid, sid, job) ==
  table \cup { [id |-> nid, source_id |-> sid,
                external_id |-> job.external_id, url |-> job.url,
                title |-> job.title, is_active |-> TRUE] }

InsertOnDuplicateKeyUpdate_RetireOthers(table, nid, sid, job) ==
  LET dup == DuplicateKeyRows(table, sid, job)
  IN  IF dup = {}
      THEN { IF r.source_id = sid THEN [r EXCEPT !.is_active = FALSE] ELSE r : r \in table }
           \cup { [id |-> nid, source_id |-> sid,
                   external_id |-> job.external_id, url |-> job.url,
                   title |-> job.title, is_active |-> TRUE] }
      ELSE { IF r \in dup
             THEN [r EXCEPT !.title = job.title, !.url = job.url, !.is_active = TRUE]
             ELSE r : r \in table }

InsertOnDuplicateKeyUpdate_KeepInactive(table, nid, sid, job) ==
  LET dup == DuplicateKeyRows(table, sid, job)
  IN  IF dup = {}
      THEN table \cup { [id |-> nid, source_id |-> sid,
                         external_id |-> job.external_id, url |-> job.url,
                         title |-> job.title, is_active |-> TRUE] }
      ELSE { IF r \in dup
             THEN [r EXCEPT !.title = job.title, !.url = job.url]
             ELSE r : r \in table }

\* insert_query: INSERT INTO jobs (...) VALUES (..., TRUE, NOW())
\*               ON DUPLICATE KEY UPDATE title, url, ..., is_active = TRUE
InsertOnDuplicateKeyUpdate(table, nid, sid, job) ==
  LET dup == DuplicateKeyRows(table, sid, job)
  IN  IF dup = {}
      THEN table \cup { [id |-> nid, source_id |-> sid,
                         external_id |-> job.external_id, url |-> job.url,
                         title |-> job.title, is_active |-> TRUE] }
      ELSE { IF r \in dup
             THEN [r EXCEPT !.title = job.title, !.url = job.url, !.is_active = TRUE]
             ELSE r : r \in table }

ActiveRows_Limit1(table, sid) ==
  LET rows == { r \in table : r.source_id = sid /\ r.is_active }
  IN  IF rows = {} THEN {}
      ELSE { CHOOSE r \in rows : \A q \in rows : r.id <= q.id }

ActiveRows_AllSources(table, sid) == { r \in table : r.is_active }

\* active_jobs_query: SELECT id, url FROM jobs
\*                    WHERE source_id = :source_id AND is_active = TRUE
ActiveRows(table, sid) == { r \in table : r.source_id = sid /\ r.is_active }

Deactivate_Delete(table, jid) == { r \in table : r.id # jid }

Deactivate_Noop(table, jid) == table

\* deactivate_query: UPDATE jobs SET is_active = FALSE WHERE id = :job_id
Deactivate(table, jid) ==
  { IF r.id = jid THEN [r EXCEPT !.is_active = FALSE] ELSE r : r \in table }

UpdateRun_FoundIsNew(runs, rid, found, new, updated) ==
  [ i \in DOMAIN runs |->
      IF i = rid
      THEN [runs[i] EXCEPT !.status = "completed", !.jobs_found = new,
                           !.jobs_new = new, !.jobs_updated = updated]
      ELSE runs[i] ]

UpdateRun_ResetOthers(runs, rid, found, new, updated) ==
  [ i \in DOMAIN runs |->
      IF i = rid
      THEN [runs[i] EXCEPT !.status = "completed", !.jobs_found = found,
                           !.jobs_new = new, !.jobs_updated = updated]
      ELSE [runs[i] EXCEPT !.status = "started"] ]

UpdateRun_BySource(runs, rid, found, new, updated) ==
  [ i \in DOMAIN runs |->
      IF runs[i].source_id = runs[rid].source_id
      THEN [runs[i] EXCEPT !.status = "completed", !.jobs_found = found,
                           !.jobs_new = new, !.jobs_updated = updated]
      ELSE runs[i] ]

\* update_run: UPDATE crawler_runs SET status = 'completed', jobs_found = ...,
\*             jobs_new = ..., jobs_updated = ... WHERE id = :run_id
UpdateRun(runs, rid, found, new, updated) ==
  [ i \in DOMAIN runs |->
      IF i = rid
      THEN [runs[i] EXCEPT !.status = "completed", !.jobs_found = found,
                           !.jobs_new = new, !.jobs_updated = updated]
      ELSE runs[i] ]

\* SELECT id FROM job_sources WHERE enabled = TRUE, in id order
RECURSIVE SortedIds(_)
SortedIds(S) ==
  IF S = {} THEN << >>
  ELSE LET m == CHOOSE x \in S : \A y \in S : x <= y
       IN  << m >> \o SortedIds(S \ { m })

EnabledSourceIds(table) == SortedIds({ r.id : r \in { q \in table : q.enabled } })

\* ------------------------------------------------------------ results
Failed(msg) ==
  [status |-> "failed", message |-> msg, source_id |-> 0,
   jobs_found |-> 0, jobs_new |-> 0, jobs_updated |-> 0]

Success(sid, found, new, updated) ==
  [status |-> "success", message |-> NoValue, source_id |-> sid,
   jobs_found |-> found, jobs_new |-> new, jobs_updated |-> updated]

NoResult == [status |-> NoValue, message |-> NoValue, source_id |-> 0,
             jobs_found |-> 0, jobs_new |-> 0, jobs_updated |-> 0]

SupportedKinds == { "lever", "greenhouse", "workday", "ashby" }

AdapterFor_Fallback(stype) ==
  IF stype \in SupportedKinds THEN stype ELSE "lever"

\* Adapter selected by the if/elif chain over scraper_type; "none" is the
\* else branch.
AdapterFor(stype) ==
  IF stype \in SupportedKinds THEN stype ELSE "none"

\* What an adapter does when its fetch fails as a whole: crawl_ashby has no
\* enclosing try (the exception escapes); crawl_lever, crawl_greenhouse and
\* crawl_workday catch it, log it and return the empty list.
AdapterFailure(adapter) ==
  IF adapter = "ashby" THEN "raise" ELSE "empty"

NoPrev == [valid |-> FALSE, source_id |-> 0, batch |-> << >>,
           status |-> NoValue, clean |-> FALSE]

\* The jobs table when the crawler starts: empty, or holding a listing an
\* earlier crawl stored and a later one retired.
InitialStores ==
  { {},
    { [id |-> 1, source_id |-> 1, external_id |-> "e1", url |-> "u1",
       title |-> "t1", is_active |-> FALSE] } }

\* a frame that is not running
NoFrame == [pc |-> "none"]

\* ------------------------------------------------------------ Init
Init ==
  /\ job_sources \in SourceTables
  /\ jobs \in InitialStores
  /\ next_job_id = Cardinality(jobs) + 1
  /\ crawler_runs = << >>
  /\ pc = "idle"
  /\ source_id = 0
  /\ caller = "direct"
  /\ run_id = 0
  /\ scraper_type = NoValue
  /\ batch = << >>
  /\ k = 1
  /\ new_count = 0
  /\ updated_count = 0
  /\ crawled_job_urls = {}
  /\ active_jobs = {}
  /\ result = NoResult
  /\ raised = FALSE
  /\ ca_pc = "idle"
  /\ ca_sources = << >>
  /\ ca_results = << >>
  /\ ca_return = NoValue
  /\ invocations = 0
  /\ faults = 0
  /\ pre_jobs = {}
  /\ pre_runs = 0
  /\ pre_faults = 0
  /\ adapter_called = FALSE
  /\ adapter_failed = FALSE
  /\ store_failed = {}
  /\ sweep_failed = FALSE
  /\ run_writes = << >>
  /\ ca_called = << >>
  /\ prev = NoPrev
  /\ trigger_call = NoFrame
  /\ filter_call = NoFrame
  /\ adapter_call = NoFrame
  /\ retention_call = NoFrame
  /\ event_loop = NoFrame
  /\ crawl_call = NoFrame

\* ------------------------------------------------------------ crawl_source
\* A store call returns (ok) or raises; at most MaxFaults calls raise.
StoreCall(ok) ==
  IF ok THEN faults' = faults
        ELSE faults < MaxFaults /\ faults' = faults + 1

\* Entry of crawl_source(s): fresh locals; the history records the store at
\* entry.
EnterCrawlSource(s, c) ==
  /\ pc = "idle"
  /\ invocations < MaxRuns
  /\ pc' = "run_insert"
  /\ source_id' = s
  /\ caller' = c
  /\ result' = NoResult
  /\ raised' = FALSE
  /\ invocations' = invocations + 1
  /\ pre_jobs' = jobs
  /\ pre_runs' = Len(crawler_runs)
  /\ pre_faults' = faults
  /\ UNCHANGED << job_sources, frameVars, storeVars, crawler_runs, run_writes, run_id,
                  scraper_type, localVars, faults, adapter_called,
                  adapter_failed, store_failed, sweep_failed, prev >>

ExceptException_Reraise ==
  /\ result' = NoResult
  /\ raised' = TRUE
  /\ pc' = "return"

\* except Exception as e: return {"status": "failed", "error": str(e)}
ExceptException ==
  /\ result' = Failed("error")
  /\ raised' = FALSE
  /\ pc' = "return"

\* trigger_crawl with a source_id
TriggerCrawlSource ==
  /\ ca_pc \in { "idle", "done", "raised" }
  /\ \E s \in SourceIds : EnterCrawlSource(s, "direct")
  /\ UNCHANGED caVars

\* run_id = execute_insert(run_insert, ...)
RunInsert ==
  /\ pc = "run_insert"
  /\ \E ok \in BOOLEAN :
       /\ StoreCall(ok)
       /\ IF ok
          THEN /\ crawler_runs' = Append(crawler_runs,
                    [source_id |-> source_id, status |-> "started",
                     jobs_found |-> NoValue, jobs_new |-> NoValue,
                     jobs_updated |-> NoValue])
               /\ run_writes' = Append(run_writes, 0)
               /\ run_id' = Len(crawler_runs) + 1
               /\ pc' = "source_query"
               /\ UNCHANGED << result, raised >>
          ELSE /\ ExceptException
               /\ UNCHANGED << crawler_runs, run_writes, run_id >>
  /\ UNCHANGED << job_sources, frameVars, storeVars, source_id, caller, scraper_type,
                  localVars, caVars, invocations, obsVars >>

\* source = execute_query(...); not found; adapter dispatch on scraper_type
SourceQuery ==
  /\ pc = "source_query"
  /\ \E ok \in BOOLEAN :
       /\ StoreCall(ok)
       /\ IF ~ok
          THEN ExceptException /\ UNCHANGED scraper_type
          ELSE LET source == { r \in job_sources : r.id = source_id }
               IN  IF source = {}
                   THEN /\ result' = Failed("Source not found")
                        /\ pc' = "return"
                        /\ UNCHANGED << scraper_type, raised >>
                   ELSE LET stype == (CHOOSE r \in source : TRUE).scraper_type
                        IN  /\ scraper_type' = stype
                            /\ IF AdapterFor(stype) = "none"
                               THEN /\ result' = Failed("Unknown scraper type")
                                    /\ pc' = "return"
                               ELSE /\ pc' = "adapter"
                                    /\ UNCHANGED result
                            /\ UNCHANGED raised
  /\ UNCHANGED << job_sources, frameVars, storeVars, crawler_runs, run_writes, source_id,
                  caller, run_id, localVars, caVars, invocations, obsVars >>

\* jobs = await crawl_<adapter>(source[0]['url']); counters and seen set
\* are initialised.
AdapterFetch ==
  /\ pc = "adapter"
  /\ adapter_called' = TRUE
  /\ \/ \E out \in Batches :
          /\ batch' = out
          /\ adapter_failed' = FALSE
          /\ pc' = IF Len(out) = 0 THEN "sweep_query" ELSE "store"
          /\ UNCHANGED << result, raised >>
     \/ /\ adapter_failed' = TRUE
        /\ IF AdapterFailure(AdapterFor(scraper_type)) = "raise"
           THEN ExceptException /\ UNCHANGED batch
           ELSE /\ batch' = << >>
                /\ pc' = "sweep_query"
                /\ UNCHANGED << result, raised >>
  /\ k' = 1
  /\ new_count' = 0
  /\ updated_count' = 0
  /\ crawled_job_urls' = {}
  /\ UNCHANGED << job_sources, frameVars, storeVars, crawler_runs, run_writes, source_id,
                  caller, run_id, scraper_type, active_jobs, caVars,
                  invocations, faults, pre_jobs, pre_runs, pre_faults, store_failed,
                  sweep_failed,
                  prev >>

\* except Exception as e: logger.error("Error storing job") inside the loop:
\* the listing is skipped and the loop goes on.
StoreJobExcept_Propagate ==
  /\ store_failed' = store_failed \cup { k }
  /\ k' = k
  /\ ExceptException

StoreJobExcept ==
  /\ store_failed' = store_failed \cup { k }
  /\ k' = k + 1
  /\ pc' = IF k = Len(batch) THEN "sweep_query" ELSE "store"
  /\ UNCHANGED << result, raised >>

\* One iteration of "for job in jobs": check query, upsert, seen set,
\* counters; either store call may raise.
\* (next_job_id advances on a real insert only: ids are opaque.)
StoreJob ==
  /\ pc = "store"
  /\ k <= Len(batch)
  /\ LET job == batch[k]
         existing == ExistingRows(jobs, source_id, job)
     IN  \E outcome \in { "ok", "check_raises", "insert_raises" } :
           /\ StoreCall(outcome = "ok")
           /\ IF outcome = "ok"
              THEN /\ jobs' = InsertOnDuplicateKeyUpdate(jobs, next_job_id, source_id, job)
                   /\ next_job_id' = IF \E r \in jobs' : r.id = next_job_id
                                      THEN next_job_id + 1 ELSE next_job_id
                   /\ crawled_job_urls' = crawled_job_urls \cup { job.url }
                   /\ IF existing # {}
                      THEN updated_count' = updated_count + 1 /\ UNCHANGED new_count
                      ELSE new_count' = new_count + 1 /\ UNCHANGED updated_count
                   /\ k' = k + 1
                   /\ pc' = IF k = Len(batch) THEN "sweep_query" ELSE "store"
                   /\ UNCHANGED << store_failed, result, raised >>
              ELSE /\ StoreJobExcept
                   /\ UNCHANGED << storeVars, crawled_job_urls, new_count, updated_count >>
  /\ UNCHANGED << job_sources, frameVars, crawler_runs, run_writes, source_id, caller,
                  run_id, scraper_type, batch, active_jobs,
                  caVars, invocations, pre_jobs, pre_runs, pre_faults,
                  adapter_called, adapter_failed, sweep_failed, prev >>

\* active_jobs = execute_query(active_jobs_query, ...)
SweepQuery ==
  /\ pc = "sweep_query"
  /\ \E ok \in BOOLEAN :
       /\ StoreCall(ok)
       /\ IF ok
          THEN /\ active_jobs' = { [id |-> r.id, url |-> r.url] : r \in ActiveRows(jobs, source_id) }
               /\ pc' = "sweep"
               /\ UNCHANGED sweep_failed
          ELSE /\ sweep_failed' = TRUE
               /\ pc' = "run_update"
               /\ UNCHANGED active_jobs
  /\ UNCHANGED << job_sources, frameVars, storeVars, crawler_runs, run_writes, source_id,
                  caller, run_id, scraper_type, batch, k, new_count,
                  updated_count, crawled_job_urls, result, raised, caVars,
                  invocations, pre_jobs, pre_runs, pre_faults,
                  adapter_called, adapter_failed,
                  store_failed, prev >>

\* One iteration of "for row in active_jobs" (result order is the store's
\* choice); an exception leaves the loop, it is caught around the sweep.
SweepRow ==
  /\ pc = "sweep"
  /\ active_jobs # {}
  /\ \E row \in active_jobs :
       IF row.url \in crawled_job_urls
       THEN /\ active_jobs' = active_jobs \ { row }
            /\ UNCHANGED << jobs, sweep_failed, pc, faults >>
       ELSE \E ok \in BOOLEAN :
              /\ StoreCall(ok)
              /\ IF ok
                 THEN /\ jobs' = Deactivate(jobs, row.id)
                      /\ active_jobs' = active_jobs \ { row }
                      /\ UNCHANGED << sweep_failed, pc >>
                 ELSE /\ sweep_failed' = TRUE
                      /\ pc' = "run_update"
                      /\ UNCHANGED << jobs, active_jobs >>
  /\ UNCHANGED << job_sources, frameVars, next_job_id, crawler_runs, run_writes, source_id,
                  caller, run_id, scraper_type, batch, k, new_count,
                  updated_count, crawled_job_urls, result, raised, caVars,
                  invocations, pre_jobs, pre_runs, pre_faults,
                  adapter_called, adapter_failed,
                  store_failed, prev >>

SweepDone ==
  /\ pc = "sweep"
  /\ active_jobs = {}
  /\ pc' = "run_update"
  /\ UNCHANGED << job_sources, frameVars, storeVars, crawler_runs, run_writes, source_id,
                  caller, run_id, scraper_type, localVars, result, raised,
                  caVars, invocations, faults, obsVars >>

\* execute_update(update_run, ...) and the success summary
RunUpdate ==
  /\ pc = "run_update"
  /\ \E ok \in BOOLEAN :
       /\ StoreCall(ok)
       /\ IF ok
          THEN /\ crawler_runs' = UpdateRun(crawler_runs, run_id, Len(batch),
                                              new_count, updated_count)
               /\ run_writes' = [ i \in DOMAIN run_writes |->
                                   IF crawler_runs'[i] # crawler_runs[i]
                                   THEN run_writes[i] + 1 ELSE run_writes[i] ]
               /\ result' = Success(source_id, Len(batch), new_count, updated_count)
               /\ pc' = "return"
               /\ UNCHANGED raised
          ELSE /\ ExceptException
               /\ UNCHANGED << crawler_runs, run_writes >>
  /\ UNCHANGED << job_sources, frameVars, storeVars, source_id, caller, run_id,
                  scraper_type, localVars, caVars, invocations, obsVars >>

\* crawl_source hands its result (or its exception) to its caller and its
\* frame ends; inside crawl_all_sources that is results.append(result), and
\* the return after the last source.  The history keeps a summary of the
\* finished invocation.
Return ==
  /\ pc = "return"
  /\ pc' = "idle"
  /\ IF caller = "all"
     THEN IF raised
          THEN /\ ca_pc' = "raised"
               /\ UNCHANGED << ca_results, ca_return >>
          ELSE LET results == Append(ca_results, result)
               IN  /\ ca_results' = results
                   /\ IF Len(results) = Len(ca_sources)
                      THEN /\ ca_pc' = "done"
                           /\ ca_return' = [sources_crawled |-> Len(results),
                                            results |-> results]
                      ELSE UNCHANGED << ca_pc, ca_return >>
     ELSE UNCHANGED << ca_pc, ca_results, ca_return >>
  /\ run_id' = 0
  /\ scraper_type' = NoValue
  /\ batch' = << >>
  /\ k' = 1
  /\ new_count' = 0
  /\ updated_count' = 0
  /\ crawled_job_urls' = {}
  /\ active_jobs' = {}
  /\ adapter_called' = FALSE
  /\ adapter_failed' = FALSE
  /\ store_failed' = {}
  /\ sweep_failed' = FALSE
  /\ prev' = [valid |-> TRUE, source_id |-> source_id, batch |-> batch,
              status |-> result.status,
              clean |-> store_failed = {} /\ ~sweep_failed /\ ~adapter_failed]
  /\ UNCHANGED << job_sources, frameVars, storeVars, crawler_runs, run_writes, source_id,
                  caller, result, raised, ca_sources, ca_called, invocations,
                  faults, pre_jobs, pre_runs, pre_faults >>

\* ------------------------------------------------------- crawl_all_sources
\* trigger_crawl without source_id, or crawl_daily_job
TriggerCrawlAll ==
  /\ ca_pc \in { "idle", "done", "raised" }
  /\ pc = "idle"
  /\ invocations + Len(EnabledSourceIds(job_sources)) <= MaxRuns
  /\ ca_pc' = "query"
  /\ ca_sources' = << >>
  /\ ca_results' = << >>
  /\ ca_return' = NoValue
  /\ ca_called' = << >>
  /\ UNCHANGED << job_sources, frameVars, storeVars, crawler_runs, run_writes, pc,
                  source_id, caller, run_id, scraper_type, localVars, result,
                  raised, invocations, faults, obsVars >>

\* sources = execute_query("SELECT id FROM job_sources WHERE enabled = TRUE")
\* (outside any try); results = []
EnabledSourcesQuery ==
  /\ ca_pc = "query"
  /\ \E ok \in BOOLEAN :
       /\ StoreCall(ok)
       /\ IF ok
          THEN LET sources == EnabledSourceIds(job_sources)
               IN  /\ ca_sources' = sources
                   /\ IF Len(sources) = 0
                      THEN /\ ca_pc' = "done"
                           /\ ca_return' = [sources_crawled |-> 0, results |-> << >>]
                      ELSE /\ ca_pc' = "loop"
                           /\ UNCHANGED ca_return
          ELSE /\ ca_pc' = "raised"
               /\ UNCHANGED << ca_sources, ca_return >>
  /\ UNCHANGED << job_sources, frameVars, storeVars, crawler_runs, run_writes, pc,
                  source_id, caller, run_id, scraper_type, localVars, result,
                  raised, ca_results, ca_called, invocations, obsVars >>

\* result = await crawl_source(source["id"], ...) for the next source
CrawlAllNext ==
  /\ ca_pc = "loop"
  /\ Len(ca_results) < Len(ca_sources)
  /\ LET s == ca_sources[Len(ca_results) + 1]
     IN  /\ EnterCrawlSource(s, "all")
         /\ ca_called' = Append(ca_called, s)
  /\ UNCHANGED << ca_pc, ca_sources, ca_results, ca_return >>

Next ==
  \/ TriggerCrawlSource
  \/ RunInsert
  \/ SourceQuery
  \/ AdapterFetch
  \/ StoreJob
  \/ SweepQuery
  \/ SweepRow
  \/ SweepDone
  \/ RunUpdate
  \/ Return
  \/ TriggerCrawlAll
  \/ EnabledSourcesQuery
  \/ CrawlAllNext

Spec == Init /\ [][Next]_vars

TypeOK ==
  /\ pc \in { "idle", "run_insert", "source_query", "adapter", "store",
              "sweep_query", "sweep", "run_update", "return" }
  /\ ca_pc \in { "idle", "query", "loop", "done", "raised" }
  /\ k \in 1 .. MaxBatch + 1
  /\ faults \in 0 .. MaxFaults
  /\ \A r \in jobs : r.id < next_job_id

\* ---------------------------------------------- a run without store errors
\* The store loop from listing i on, no store call raising: the table, the
\* next id, the counters and the seen set it ends with.
RECURSIVE StoreLoop(_, _, _, _)
StoreLoop(st, sid, listings, i) ==
  IF i > Len(listings) THEN st
  ELSE LET job      == listings[i]
           existing == ExistingRows(st.table, sid, job)
           table    == InsertOnDuplicateKeyUpdate(st.table, st.next_id, sid, job)
       IN  StoreLoop([table   |-> table,
                      next_id |-> IF \E r \in table : r.id = st.next_id
                                  THEN st.next_id + 1 ELSE st.next_id,
                      new     |-> IF existing = {} THEN st.new + 1 ELSE st.new,
                      updated |-> IF existing # {} THEN st.updated + 1 ELSE st.updated,
                      seen    |-> st.seen \cup { job.url }],
                     sid, listings, i + 1)

\* The sweep, no store call raising: every active row of the source whose
\* url is not in the seen set is deactivated.
SweepAll(table, sid, seen) ==
  { IF r \in ActiveRows(table, sid) /\ r.url \notin seen
    THEN [r EXCEPT !.is_active = FALSE] ELSE r : r \in table }

\* Store loop and sweep of crawl_source over a table whose next id is
\* next_id: the final table and the counters of the summary.
Reconcile(table, next_id, sid, listings) ==
  LET st == StoreLoop([table |-> table, next_id |-> next_id, new |-> 0,
                       updated |-> 0, seen |-> {}], sid, listings, 1)
  IN  [table   |-> SweepAll(st.table, sid, st.seen),
       found   |-> Len(listings),
       new     |-> st.new,
       updated |-> st.updated]

\* ------------------------------------------- crawl_source: the two filters
\* What an adapter puts in job["posting_date"]: None, a non-string (an epoch
\* number), or a string: blank, not ISO, or ISO with wall-clock hour `wall`
\* and suffix "Z", "" (naive), "+02:00" or "-05:00".  Time is in whole hours.
NoDate == [type |-> "none", wall |-> 0, suffix |-> ""]

IsoDate(wall, suffix) == [type |-> "iso", wall |-> wall, suffix |-> suffix]

PostingDates ==
  { NoDate,
    [type |-> "int",     wall |-> 0, suffix |-> ""],
    [type |-> "blank",   wall |-> 0, suffix |-> ""],
    [type |-> "garbage", wall |-> 0, suffix |-> ""],
    IsoDate(75, "Z"), IsoDate(76, "Z"), IsoDate(99, ""), IsoDate(98, ""),
    IsoDate(78, "+02:00"), IsoDate(70, "-05:00"), IsoDate(101, "Z") }

\* utcoffset of the tzinfo datetime.fromisoformat attaches, in hours; "Z" is
\* rewritten to "+00:00" first and a naive value is given tzinfo=utc.
UtcOffset(suffix) ==
  CASE suffix = "+02:00" -> 2
    [] suffix = "-05:00" -> 0 - 5
    [] OTHER -> 0

\* _parse_iso_datetime_maybe: the instant of an aware datetime as a
\* one-element set, {} for None.
ParseIsoDatetimeMaybe(value) ==
  IF value.type = "iso" THEN { value.wall - UtcOffset(value.suffix) } ELSE {}

\* Words of titles, descriptions and keywords, and str.lower() on them.
Lower(w) ==
  CASE w = "Senior" -> "senior"           [] w = "Backend" -> "backend"
    [] w = "Engineer" -> "engineer"       [] w = "Engineers" -> "engineers"
    [] w = "Engineering" -> "engineering" [] w = "Software" -> "software"
    [] w = "Sales" -> "sales"             [] w = "Manager" -> "manager"
    [] w = "Full" -> "full"               [] w = "Stack" -> "stack"
    [] w = "Design" -> "design"           [] w = "Intern" -> "intern"
    [] OTHER -> w

LowerText(text) == [ i \in DOMAIN text |-> Lower(text[i]) ]

\* dept.split(' ') for the keywords a source may be configured with
WordsOf(dept) ==
  CASE dept = "Software Engineering" -> << "Software", "Engineering" >>
    [] OTHER -> << dept >>

\* 'engineering' in dept.lower()
ContainsEngineering(dept) ==
  \E i \in DOMAIN WordsOf(dept) : Lower(WordsOf(dept)[i]) = "engineering"

\* words the tail "engineer" of the variation pattern matches the start of
StartsWithEngineer(w) == w \in { "engineer", "engineers", "engineering" }

SynonymWords == { "software", "backend", "frontend", "fullstack", "full-stack",
                  "devops", "infrastructure", "sre" }

\* re.compile(r'\b' + dept.lower().replace(' ', r'\s+') + r'\b', re.I)
KeywordPattern(dept) == [kind |-> "keyword", words |-> LowerText(WordsOf(dept))]

\* re.compile(r'\b(software|backend|frontend|full.?stack|devops|
\*              infrastructure|sre)\s+engineer', re.I)
VariationPattern == [kind |-> "variation", words |-> << >>]

\* pattern.search(text), text a sequence of whitespace-separated words
Search(pattern, text) ==
  IF pattern.kind = "keyword"
  THEN \E i \in 1 .. Len(text) :
         /\ i + Len(pattern.words) - 1 <= Len(text)
         /\ \A j \in 1 .. Len(pattern.words) : text[i + j - 1] = pattern.words[j]
  ELSE \E i \in 1 .. Len(text) :
         \/ /\ text[i] \in SynonymWords
            /\ i + 1 <= Len(text)
            /\ StartsWithEngineer(text[i + 1])
         \/ /\ text[i] = "full"
            /\ i + 2 <= Len(text)
            /\ text[i + 1] = "stack"
            /\ StartsWithEngineer(text[i + 2])

\* the loop over target_departments that builds dept_patterns
RECURSIVE DeptPatterns(_)
DeptPatterns(targets) ==
  IF targets = << >> THEN << >>
  ELSE << KeywordPattern(Head(targets)) >>
       \o (IF ContainsEngineering(Head(targets)) THEN << VariationPattern >> ELSE << >>)
       \o DeptPatterns(Tail(targets))

\* the listings an adapter hands to the filters
Text(title, description) ==
  [url |-> "u", title |-> title, description |-> description,
   department |-> NoValue, posting_date |-> NoDate]

FetchedJobs ==
  { [Text(<< "Senior", "Backend", "Engineer" >>, << >>) EXCEPT !.posting_date = d]
      : d \in PostingDates }
  \cup
  { Text(<< "Sales", "Manager" >>, << >>),
    [Text(<< "Engineering", "Manager" >>, << >>) EXCEPT !.department = "Platform"],
    Text(<< "Account", "Executive" >>, << "works", "with", "Engineering" >>),
    Text(<< "Software", "Engineering", "Intern" >>, << >>),
    Text(<< "Engineer" >>, << "software" >>),
    Text(<< "Full", "Stack", "Engineers" >>, << >>),
    [Text(<< "Designer" >>, << "design", "systems" >>) EXCEPT !.department = "Design"] }

\* target_departments of a job_sources row, after json.loads: null is TRUE
\* for SQL NULL
TargetDepartments ==
  { [null |-> TRUE,  keywords |-> << >>],
    [null |-> FALSE, keywords |-> << >>],
    [null |-> FALSE, keywords |-> << "Engineering" >>],
    [null |-> FALSE, keywords |-> << "Sales", "Engineering" >>],
    [null |-> FALSE, keywords |-> << "Software Engineering" >>],
    [null |-> FALSE, keywords |-> << "Design" >>] }

FilteredByAge_Strict(fetched, cutoff) ==
  SelectSeq(fetched, LAMBDA job :
    LET dt == ParseIsoDatetimeMaybe(job.posting_date)
    IN  dt = {} \/ \E t \in dt : t > cutoff)

\* for job in jobs: dt = _parse_iso_datetime_maybe(job.get("posting_date"));
\*                  if dt is None or dt >= cutoff: filtered_by_age.append(job)
RECURSIVE FilteredByAge(_, _)
FilteredByAge(fetched, cutoff) ==
  IF fetched = << >> THEN << >>
  ELSE LET job == Head(fetched)
           dt  == ParseIsoDatetimeMaybe(job.posting_date)
       IN  (IF dt = {} \/ \E t \in dt : t >= cutoff THEN << job >> ELSE << >>)
           \o FilteredByAge(Tail(fetched), cutoff)

\* matches: some pattern finds the lower-cased title or description
Matches(patterns, job) ==
  \E i \in DOMAIN patterns :
    \/ Search(patterns[i], LowerText(job.title))
    \/ Search(patterns[i], LowerText(job.description))

FilteredJobs_KeepDepartment(fetched, targets) ==
  SelectSeq(fetched, LAMBDA job : Matches(DeptPatterns(targets), job))

\* for job in jobs: if matches: job['department'] = target_departments[0];
\*                              filtered_jobs.append(job)
RECURSIVE FilteredJobs(_, _)
FilteredJobs(fetched, targets) ==
  IF fetched = << >> THEN << >>
  ELSE LET job == Head(fetched)
       IN  (IF Matches(DeptPatterns(targets), job)
            THEN << [job EXCEPT !.department = targets[1]] >>
            ELSE << >>)
           \o FilteredJobs(Tail(fetched), targets)

\* The crawler at rest, no source configured: the state the specifications of
\* the pure parts leave the crawler in.
CrawlerIdle ==
  /\ job_sources = {}
  /\ jobs = {}
  /\ next_job_id = 1
  /\ crawler_runs = << >>
  /\ pc = "idle"
  /\ source_id = 0
  /\ caller = "direct"
  /\ run_id = 0
  /\ scraper_type = NoValue
  /\ batch = << >>
  /\ k = 1
  /\ new_count = 0
  /\ updated_count = 0
  /\ crawled_job_urls = {}
  /\ active_jobs = {}
  /\ result = NoResult
  /\ raised = FALSE
  /\ ca_pc = "idle"
  /\ ca_sources = << >>
  /\ ca_results = << >>
  /\ ca_return = NoValue
  /\ invocations = 0
  /\ faults = 0
  /\ pre_jobs = {}
  /\ pre_runs = 0
  /\ pre_faults = 0
  /\ adapter_called = FALSE
  /\ adapter_failed = FALSE
  /\ store_failed = {}
  /\ sweep_failed = FALSE
  /\ run_writes = << >>
  /\ ca_called = << >>
  /\ prev = NoPrev

\* crawl_source has the adapter's jobs and is about to filter them; the
\* cutoff is an empty set for max_post_age_hours = None.
InitFilter ==
  /\ CrawlerIdle
  /\ trigger_call = NoFrame
  /\ adapter_call = NoFrame
  /\ retention_call = NoFrame
  /\ event_loop = NoFrame
  /\ crawl_call = NoFrame
  /\ \E fetched \in SeqsUpTo(FetchedJobs, MaxFetched),
        hours \in { {}, { 1 }, { 24 } },
        targets \in TargetDepartments :
       filter_call = [pc |-> "age", fetched |-> fetched, jobs |-> fetched,
                      filtered_by_age |-> << >>,
                      max_post_age_hours |-> hours,
                      target_departments |-> targets, now |-> 100]

\* if max_post_age_hours is not None: cutoff = now - timedelta(hours=...);
\*                                    jobs = filtered_by_age
\* (the frame's filtered_by_age records jobs as this step leaves it)
FilterByAge ==
  /\ filter_call.pc = "age"
  /\ LET kept == IF filter_call.max_post_age_hours = {}
                 THEN filter_call.jobs
                 ELSE LET h == CHOOSE x \in filter_call.max_post_age_hours : TRUE
                      IN  FilteredByAge(filter_call.jobs, filter_call.now - h)
     IN  filter_call' = [filter_call EXCEPT !.pc = "department", !.jobs = kept,
                                            !.filtered_by_age = kept]
  /\ UNCHANGED << crawlerVars, trigger_call, adapter_call, retention_call, event_loop,
                  crawl_call >>

\* if target_departments: ...; jobs = filtered_jobs
FilterByDepartment ==
  /\ filter_call.pc = "department"
  /\ filter_call' =
       [filter_call EXCEPT
          !.pc = "store",
          !.jobs = IF filter_call.target_departments.keywords = << >>
                   THEN @
                   ELSE FilteredJobs(@, filter_call.target_departments.keywords)]
  /\ UNCHANGED << crawlerVars, trigger_call, adapter_call, retention_call, event_loop,
                  crawl_call >>

NextFilter == FilterByAge \/ FilterByDepartment

SpecFilter == InitFilter /\ [][NextFilter]_vars

\* ------------------------------------------------------------ trigger_crawl
\* A query-string value: null is TRUE when the parameter is not given, chars
\* are its characters.
NoString == [null |-> TRUE, chars |-> << >>]

Str(chars) == [null |-> FALSE, chars |-> chars]

\* str.lower() on one character
LowerChar(c) ==
  CASE c = "D" -> "d" [] c = "H" -> "h" [] c = "M" -> "m" [] OTHER -> c

\* str.strip(): leading and trailing blanks removed
RECURSIVE StripLeft(_)
StripLeft(chars) ==
  IF chars # << >> /\ Head(chars) = " " THEN StripLeft(Tail(chars)) ELSE chars

RECURSIVE StripRight(_)
StripRight(chars) ==
  IF chars # << >> /\ chars[Len(chars)] = " "
  THEN StripRight(SubSeq(chars, 1, Len(chars) - 1))
  ELSE chars

Strip(chars) == StripRight(StripLeft(chars))

\* mapping.get(w): the hours of a preset window as a one-element set, {} for
\* None
WindowMapping(w) ==
  CASE w = << "2", "4", "h" >> -> { 24 }
    [] w = << "1", "d" >> -> { 24 }
    [] w = << "7", "d" >> -> { 7 * 24 }
    [] w = << "1", "5", "d" >> -> { 15 * 24 }
    [] w = << "3", "0", "d" >> -> { 30 * 24 }
    [] w = << "1", "m" >> -> { 30 * 24 }
    [] w = << "1", "m", "o" >> -> { 30 * 24 }
    [] w = << "m", "o", "n", "t", "h" >> -> { 30 * 24 }
    [] OTHER -> {}

\* _window_to_hours
WindowToHours(window) ==
  IF window.null \/ window.chars = << >>
  THEN {}
  ELSE WindowMapping([ i \in DOMAIN Strip(window.chars) |-> LowerChar(Strip(window.chars)[i]) ])

EffectiveHours_DaysFirst(hours, days, window) ==
  IF days # {} THEN { d * 24 : d \in days }
  ELSE IF hours # {} THEN hours
  ELSE WindowToHours(window)

\* effective_hours: hours > days > preset window (an absent integer
\* parameter is the empty set)
EffectiveHours(hours, days, window) ==
  IF hours # {} THEN hours
  ELSE IF days # {} THEN { d * 24 : d \in days }
  ELSE WindowToHours(window)

\* values of age_window a client may send
AgeWindows ==
  { NoString, Str(<< >>), Str(<< " ", " " >>),
    Str(<< "2", "4", "h" >>), Str(<< "1", "d" >>), Str(<< "7", "d" >>),
    Str(<< "1", "5", "d" >>), Str(<< "3", "0", "d" >>), Str(<< "1", "m" >>),
    Str(<< "1", "m", "o" >>), Str(<< "m", "o", "n", "t", "h" >>),
    Str(<< " ", "7", "D", " " >>), Str(<< "2", "4", "H" >>),
    Str(<< "2", "w" >>), Str(<< "7", " ", "d" >>) }

\* the request has been validated (hours in 1..2160, days in 1..365) and
\* trigger_crawl is entered
InitTrigger ==
  /\ CrawlerIdle
  /\ filter_call = NoFrame
  /\ adapter_call = NoFrame
  /\ retention_call = NoFrame
  /\ event_loop = NoFrame
  /\ crawl_call = NoFrame
  /\ \E sid \in { {}, { 0 }, { 1 } },
        hours \in { {}, { 1 }, { 48 }, { 2160 } },
        days \in { {}, { 1 }, { 7 }, { 365 } },
        window \in AgeWindows :
       trigger_call = [pc |-> "resolve", source_id |-> sid,
                       max_post_age_hours |-> hours, max_post_age_days |-> days,
                       age_window |-> window, effective_hours |-> {},
                       crawl |-> NoValue, crawl_hours |-> {}]

\* lines 134-140
ResolveEffectiveHours ==
  /\ trigger_call.pc = "resolve"
  /\ trigger_call' =
       [trigger_call EXCEPT
          !.pc = "dispatch",
          !.effective_hours = EffectiveHours(trigger_call.max_post_age_hours,
                                             trigger_call.max_post_age_days,
                                             trigger_call.age_window)]
  /\ UNCHANGED << crawlerVars, filter_call, adapter_call, retention_call, event_loop,
                  crawl_call >>

\* if source_id: crawl_source(source_id, max_post_age_hours=effective_hours)
\* else: crawl_all_sources(max_post_age_hours=effective_hours)
DispatchCrawl ==
  /\ trigger_call.pc = "dispatch"
  /\ trigger_call' =
       [trigger_call EXCEPT
          !.pc = "called",
          !.crawl = IF trigger_call.source_id \in { {}, { 0 } }
                    THEN "crawl_all_sources" ELSE "crawl_source",
          !.crawl_hours = trigger_call.effective_hours]
  /\ UNCHANGED << crawlerVars, filter_call, adapter_call, retention_call, event_loop,
                  crawl_call >>

NextTrigger == ResolveEffectiveHours \/ DispatchCrawl

SpecTrigger == InitTrigger /\ [][NextTrigger]_vars

\* ------------------------------------------------------------ the adapters
\* An href is kept as the list href.split("/") gives: "/acme/jobs/x" is
\* << "", "acme", "jobs", "x" >>, an absolute URL starts << "https:", "", host >>.
CompanySlug == "acme"

Origin == "https://jobs.ashbyhq.com"

LongId1 == "0123abcd-4567-89ef-0123-456789abcdef"

LongId2 == "89abcdef-0123-4567-89ab-cdef01234567"

\* len(segment) >= 20
IsLong(segment) == segment \in { LongId1, LongId2 }

\* company_slug in segment
ContainsSlug(segment) == segment = CompanySlug

\* [p for p in href.strip("/").split("/") if p]
Parts(href) == SelectSeq(href, LAMBDA segment : segment # "")

\* "/apply" in href: a segment after a slash begins with "apply"
HasApply(href) == \E i \in 2 .. Len(href) : href[i] = "apply"

\* company_slug not in href
LacksSlug(href) == \A i \in 1 .. Len(href) : ~ContainsSlug(href[i])

\* anchors of the rendered page: href and text
Anchors ==
  { [href |-> << "", "acme", LongId1 >>, text |-> "Backend Engineer"],
    [href |-> << "", "acme", LongId1 >>, text |-> ""],
    [href |-> << "", "acme", "jobs", LongId1 >>, text |-> "Backend Engineer"],
    [href |-> << "", "acme", "jobs", LongId2, "" >>, text |-> "Data Engineer"],
    [href |-> << "https:", "", "jobs.ashbyhq.com", "acme", "jobs", LongId2 >>,
     text |-> "Data Engineer"],
    [href |-> << "https:", "", "jobs.ashbyhq.com", "acme", LongId2 >>,
     text |-> "Data Engineer"],
    [href |-> << "", "acme", LongId1, "apply" >>, text |-> "Apply"],
    [href |-> << "", "other", LongId1 >>, text |-> "Backend Engineer"],
    [href |-> << "", "acme", "jobs" >>, text |-> "All jobs"] }

\* entries of window.__appData.jobBoard.jobPostings: dict is FALSE for an
\* entry that is no object (null, a string); secondary is "none", "ok" (a list
\* of objects) or "malformed" (a list whose first element is no object)
Postings ==
  { [dict |-> TRUE,  id |-> LongId1, title |-> "Staff Engineer", secondary |-> "none"],
    [dict |-> TRUE,  id |-> LongId2, title |-> "",               secondary |-> "ok"],
    [dict |-> TRUE,  id |-> "",      title |-> "Untitled",       secondary |-> "none"],
    [dict |-> TRUE,  id |-> LongId1, title |-> "Staff Engineer", secondary |-> "malformed"],
    [dict |-> FALSE, id |-> "",      title |-> "",               secondary |-> "none"] }

\* div elements found by lever, greenhouse and workday: parse is "raise" when
\* building job_data from the element raises
JobItems ==
  { [external_id |-> "e1", title |-> "t1", url |-> "u1", parse |-> "ok"],
    [external_id |-> "e2", title |-> "t2", url |-> "u2", parse |-> "ok"],
    [external_id |-> "e3", title |-> "",   url |-> "",   parse |-> "raise"] }

NoPosting == [dict |-> TRUE, id |-> "", title |-> "", secondary |-> "none"]

\* for p in postings: pid = p.get("id"); if pid: id_to_posting[pid] = p
\* (p.get raises AttributeError when p is no dict): the mapping as a set of
\* postings, one per id, the last one winning
RECURSIVE IdToPosting(_, _)
IdToPosting(postings, sofar) ==
  IF postings = << >> THEN [raised |-> FALSE, map |-> sofar]
  ELSE LET p == Head(postings)
       IN  IF ~p.dict THEN [raised |-> TRUE, map |-> sofar]
           ELSE IdToPosting(Tail(postings),
                            IF p.id = "" THEN sofar
                            ELSE { q \in sofar : q.id # p.id } \cup { p })

\* posting = id_to_posting.get(external_id, {})
PostingGet(map, external_id) ==
  IF \E q \in map : q.id = external_id
  THEN CHOOSE q \in map : q.id = external_id
  ELSE NoPosting

\* if len(parts) >= 3 and parts[1] == "jobs": /{company_slug}/jobs/{id}
\* else: /{company_slug}/{id}
AshbyUrl(parts) ==
  IF Len(parts) >= 3 /\ parts[2] = "jobs"
  THEN << Origin, CompanySlug, "jobs", parts[Len(parts)] >>
  ELSE << Origin, CompanySlug, parts[Len(parts)] >>

\* the loop over soup.find_all("a", href=True); nothing in it is caught
RECURSIVE AshbyAnchors(_, _, _)
AshbyAnchors(anchors, map, found) ==
  IF anchors = << >> THEN [raised |-> FALSE, jobs |-> found]
  ELSE LET a     == Head(anchors)
           parts == Parts(a.href)
       IN  IF HasApply(a.href) \/ LacksSlug(a.href)
           THEN AshbyAnchors(Tail(anchors), map, found)
           ELSE IF parts = << >> \/ ~IsLong(parts[Len(parts)])
           THEN AshbyAnchors(Tail(anchors), map, found)
           ELSE LET external_id == parts[Len(parts)]
                    posting     == PostingGet(map, external_id)
                    title       == IF posting.title # "" THEN posting.title ELSE a.text
                IN  IF title = ""
                    THEN AshbyAnchors(Tail(anchors), map, found)
                    ELSE IF posting.secondary = "malformed"
                    THEN [raised |-> TRUE, jobs |-> found]
                    ELSE AshbyAnchors(Tail(anchors), map,
                           Append(found, [external_id |-> external_id,
                                          title |-> title,
                                          url |-> AshbyUrl(parts),
                                          href |-> a.href]))

\* crawl_ashby after the page was fetched (lines 33-98)
CrawlAshbyResult(postings, anchors) ==
  LET ids == IdToPosting(postings, {})
  IN  IF ids.raised THEN [raised |-> TRUE, jobs |-> << >>]
      ELSE AshbyAnchors(anchors, ids.map, << >>)

\* for item in job_items: try: jobs.append(job_data)
\*                         except Exception: continue
JobItemsResult(items) == SelectSeq(items, LAMBDA item : item.parse = "ok")

\* an adapter has fetched its page and is about to parse it
InitAdapter ==
  /\ CrawlerIdle
  /\ trigger_call = NoFrame
  /\ filter_call = NoFrame
  /\ retention_call = NoFrame
  /\ event_loop = NoFrame
  /\ crawl_call = NoFrame
  /\ \E stype \in SupportedKinds :
       IF stype = "ashby"
       THEN \E anchors \in SeqsUpTo(Anchors, MaxItems),
               postings \in SeqsUpTo(Postings, MaxItems) :
              adapter_call = [pc |-> "parse", scraper_type |-> stype,
                              anchors |-> anchors, postings |-> postings,
                              job_items |-> << >>, jobs |-> << >>, raised |-> FALSE]
       ELSE \E items \in SeqsUpTo(JobItems, MaxItems) :
              adapter_call = [pc |-> "parse", scraper_type |-> stype,
                              anchors |-> << >>, postings |-> << >>,
                              job_items |-> items, jobs |-> << >>, raised |-> FALSE]

CrawlAshby ==
  /\ adapter_call.pc = "parse"
  /\ adapter_call.scraper_type = "ashby"
  /\ LET r == CrawlAshbyResult(adapter_call.postings, adapter_call.anchors)
     IN  adapter_call' = [adapter_call EXCEPT !.pc = "returned",
                                              !.raised = r.raised,
                                              !.jobs = IF r.raised THEN << >> ELSE r.jobs]
  /\ UNCHANGED << crawlerVars, trigger_call, filter_call, retention_call, event_loop,
                  crawl_call >>

ParseJobItems(stype) ==
  /\ adapter_call.pc = "parse"
  /\ adapter_call.scraper_type = stype
  /\ adapter_call' = [adapter_call EXCEPT !.pc = "returned",
                                          !.jobs = JobItemsResult(adapter_call.job_items)]
  /\ UNCHANGED << crawlerVars, trigger_call, filter_call, retention_call, event_loop,
                  crawl_call >>

CrawlLever == ParseJobItems("lever")

CrawlGreenhouse == ParseJobItems("greenhouse")

CrawlWorkday == ParseJobItems("workday")

NextAdapter == CrawlAshby \/ CrawlLever \/ CrawlGreenhouse \/ CrawlWorkday

SpecAdapter == InitAdapter /\ [][NextAdapter]_vars

\* ============================================================= retention
\* archive_old_jobs (services/retention.py) issues three statements, each in
\* a transaction of its own: the count, the archive insert and the delete.
\* Other clients of the database (the dashboard's create_application, the
\* maintenance scripts, a crawl) and the clock act between them.
MaxRetentionRows == 2   \* rows of jobs seen by archive_old_jobs
MaxEvents        == 2   \* actions of other clients and clock ticks per call

\* days = int(retention_days or settings.JOB_RETENTION_DAYS), in clock units
RetentionDays == 2

\* NOW() when archive_old_jobs is entered
RetentionStart == 3

\* values of COALESCE(j.posting_date, j.crawled_at)
RetentionStamps == 0 .. 2

RetentionRows ==
  [ id : 1 .. MaxRetentionRows, stamp : RetentionStamps,
    applied : BOOLEAN, lettered : BOOLEAN ]

\* tables with one row per id
RetentionTables ==
  { t \in SUBSET RetentionRows :
      \A a, b \in t : a.id = b.id => a = b }

\* WHERE COALESCE(j.posting_date, j.crawled_at) < DATE_SUB(NOW(), INTERVAL :days DAY)
\*   AND NOT EXISTS (applications ...) AND NOT EXISTS (cover_letters ...)
EligibleRows(table, now, days) ==
  { j \in table : j.stamp < now - days /\ ~j.applied /\ ~j.lettered }

\* INSERT INTO jobs_archived (...) SELECT j.id AS original_job_id, NOW(), ...
\*   ... AND NOT EXISTS (SELECT 1 FROM jobs_archived ja WHERE ja.original_job_id = j.id)
InsertSql(table, archived, now, days) ==
  archived \cup
    { [original_job_id |-> j.id, archived_at |-> now, stamp |-> j.stamp] :
        j \in { e \in EligibleRows(table, now, days) :
                  \A ja \in archived : ja.original_job_id # e.id } }

\* DELETE j FROM jobs j WHERE <age> AND NOT EXISTS (applications) AND NOT EXISTS (cover_letters)
DeleteSql(table, now, days) == table \ EligibleRows(table, now, days)

\* an earlier call may have archived rows it did not come to delete
InitRetention ==
  /\ CrawlerIdle
  /\ trigger_call = NoFrame
  /\ filter_call = NoFrame
  /\ adapter_call = NoFrame
  /\ event_loop = NoFrame
  /\ crawl_call = NoFrame
  /\ \E t \in RetentionTables, ids \in SUBSET (1 .. MaxRetentionRows) :
       /\ ids \subseteq { j.id : j \in t }
       /\ retention_call =
            [pc |-> "count", days |-> RetentionDays, now |-> RetentionStart,
             jobs |-> t,
             jobs_archived |->
               { [original_job_id |-> j.id, archived_at |-> 0, stamp |-> j.stamp] :
                   j \in { r \in t : r.id \in ids } },
             eligible |-> 0, deleted |-> {}, events |-> 0]

RetentionRunning == retention_call.pc \in { "count", "insert", "delete" }

RetentionFrame == UNCHANGED << crawlerVars, trigger_call, filter_call,
                               adapter_call, event_loop, crawl_call >>

\* rows = execute_query(count_sql); eligible = int(rows[0]["cnt"])
CountEligible ==
  /\ retention_call.pc = "count"
  /\ \E ok \in BOOLEAN :
       retention_call' =
         IF ok
         THEN [retention_call EXCEPT
                 !.pc = "insert",
                 !.eligible = Cardinality(EligibleRows(retention_call.jobs,
                                  retention_call.now, retention_call.days))]
         ELSE [retention_call EXCEPT !.pc = "raised"]
  /\ RetentionFrame

\* execute_update(insert_sql, {"days": days})
ArchiveInsert ==
  /\ retention_call.pc = "insert"
  /\ \E ok \in BOOLEAN :
       retention_call' =
         IF ok
         THEN [retention_call EXCEPT
                 !.pc = "delete",
                 !.jobs_archived = InsertSql(retention_call.jobs,
                                      retention_call.jobs_archived,
                                      retention_call.now, retention_call.days)]
         ELSE [retention_call EXCEPT !.pc = "raised"]
  /\ RetentionFrame

\* deleted = execute_update(delete_sql, {"days": days}); return {...}
ArchiveDelete ==
  /\ retention_call.pc = "delete"
  /\ \E ok \in BOOLEAN :
       retention_call' =
         IF ok
         THEN LET rest == DeleteSql(retention_call.jobs, retention_call.now,
                                    retention_call.days)
              IN  [retention_call EXCEPT
                     !.pc = "returned",
                     !.jobs = rest,
                     !.deleted =
                       { [id |-> j.id, applied |-> j.applied,
                          lettered |-> j.lettered,
                          archived |-> \E ja \in retention_call.jobs_archived :
                                          ja.original_job_id = j.id] :
                           j \in retention_call.jobs \ rest }]
         ELSE [retention_call EXCEPT !.pc = "raised"]
  /\ RetentionFrame

\* something outside archive_old_jobs acts between two of its statements
OtherClient(table, now) ==
  /\ RetentionRunning
  /\ retention_call.events < MaxEvents
  /\ retention_call' = [retention_call EXCEPT !.events = @ + 1,
                                              !.jobs = table, !.now = now]
  /\ RetentionFrame

\* NOW() is evaluated again by each statement
ClockTick == OtherClient(retention_call.jobs, retention_call.now + 1)

\* create_application: INSERT INTO applications (job_id, ...)
CreateApplication ==
  \E j \in retention_call.jobs :
    /\ ~j.applied
    /\ OtherClient((retention_call.jobs \ { j }) \cup { [j EXCEPT !.applied = TRUE] },
                   retention_call.now)

\* scripts/delete_jobs.py: DELETE FROM applications WHERE job_id IN (...)
RemoveApplication ==
  \E j \in retention_call.jobs :
    /\ j.applied
    /\ OtherClient((retention_call.jobs \ { j }) \cup { [j EXCEPT !.applied = FALSE] },
                   retention_call.now)

\* a crawl's upsert: posting_date = VALUES(posting_date), crawled_at = NOW()
CrawlUpdatesRow ==
  \E j \in retention_call.jobs,
     s \in RetentionStamps \cup { retention_call.now } :
    /\ s # j.stamp
    /\ OtherClient((retention_call.jobs \ { j }) \cup { [j EXCEPT !.stamp = s] },
                   retention_call.now)

NextRetention ==
  \/ CountEligible
  \/ ArchiveInsert
  \/ ArchiveDelete
  \/ ClockTick
  \/ CreateApplication
  \/ RemoveApplication
  \/ CrawlUpdatesRow

SpecRetention == InitRetention /\ [][NextRetention]_vars

\* =============================================================== overlap
\* Two crawl_source coroutines for one source in one event loop: the daily
\* job of the AsyncIOScheduler and a manual trigger_crawl request.  A
\* coroutine keeps the loop until it awaits; the store helpers of
\* database.py are plain functions.
MaxOverlapBatch == 2    \* longest filtered batch of an overlapping run

\* crawl_daily_job's invocation and trigger_crawl's
TaskIds == { 1, 2 }

OverlapSource == 1

\* where crawl_source awaits: jobs = await crawl_<platform>(source[0]['url'])
AwaitPoints_StoreCalls == { "adapter", "store", "sweep", "run_update" }

AwaitPoints == { "adapter" }

OverlapStores ==
  { {},
    { [id |-> 1, source_id |-> OverlapSource, external_id |-> "e1",
       url |-> "u1", title |-> "t1", is_active |-> TRUE] } }

NewTask == [pc |-> "start", run_id |-> 0, batch |-> << >>, k |-> 1,
            new |-> 0, updated |-> 0, seen |-> {}]

InitOverlap ==
  /\ CrawlerIdle
  /\ trigger_call = NoFrame
  /\ filter_call = NoFrame
  /\ adapter_call = NoFrame
  /\ retention_call = NoFrame
  /\ crawl_call = NoFrame
  /\ \E t \in OverlapStores :
       event_loop = [pc |-> "loop", running |-> 0,
                     tasks |-> [ i \in TaskIds |-> NewTask ],
                     jobs |-> t, start_jobs |-> t,
                     crawler_runs |-> << >>,
                     log |-> << >>, order |-> << >>]

OverlapFrame == UNCHANGED << crawlerVars, trigger_call, filter_call,
                             adapter_call, retention_call, crawl_call >>

\* the loop resumes a coroutine only when no other one is running
CanRun(t) == event_loop.running \in { 0, t }

\* after a step the coroutine keeps the loop unless it awaits or returns
Holder(t, next_pc) == IF next_pc \in AwaitPoints \cup { "done" } THEN 0 ELSE t

\* AUTO_INCREMENT of jobs: ids are handed out in order and never reused
NextId(table) == Cardinality(table) + 1

\* lines 55-64: the run insert and the source query, then the adapter await
OverlapBegin(t) ==
  /\ event_loop.tasks[t].pc = "start"
  /\ CanRun(t)
  /\ event_loop' =
       [event_loop EXCEPT
          !.running = Holder(t, "adapter"),
          !.crawler_runs = Append(@, [source_id |-> OverlapSource,
                                      status |-> "started",
                                      jobs_found |-> NoValue,
                                      jobs_new |-> NoValue,
                                      jobs_updated |-> NoValue]),
          !.tasks[t].run_id = Len(event_loop.crawler_runs) + 1,
          !.tasks[t].pc = "adapter"]
  /\ OverlapFrame

\* lines 76-140: the adapter's result arrives and the filters run
OverlapAdapterReturns(t) ==
  /\ event_loop.tasks[t].pc = "adapter"
  /\ CanRun(t)
  /\ \E b \in SeqsUpTo(Listings, MaxOverlapBatch) :
       LET next_pc == IF b = << >> THEN "sweep" ELSE "store"
       IN  event_loop' =
             [event_loop EXCEPT
                !.running = Holder(t, next_pc),
                !.tasks[t].batch = b,
                !.tasks[t].pc = next_pc]
  /\ OverlapFrame

\* lines 142-205: check query and upsert of one listing
OverlapStore(t) ==
  /\ event_loop.tasks[t].pc = "store"
  /\ CanRun(t)
  /\ LET task    == event_loop.tasks[t]
         st      == StoreLoop([table |-> event_loop.jobs,
                               next_id |-> NextId(event_loop.jobs),
                               new |-> task.new, updated |-> task.updated,
                               seen |-> task.seen],
                              OverlapSource, << task.batch[task.k] >>, 1)
         next_pc == IF task.k = Len(task.batch) THEN "sweep" ELSE "store"
     IN  event_loop' =
           [event_loop EXCEPT
              !.running = Holder(t, next_pc),
              !.jobs = st.table,
              !.log = Append(@, t),
              !.tasks[t] = [task EXCEPT !.k = @ + 1, !.new = st.new,
                                        !.updated = st.updated,
                                        !.seen = st.seen, !.pc = next_pc]]
  /\ OverlapFrame

\* lines 207-230: the sweep
OverlapSweep(t) ==
  /\ event_loop.tasks[t].pc = "sweep"
  /\ CanRun(t)
  /\ event_loop' =
       [event_loop EXCEPT
          !.running = Holder(t, "run_update"),
          !.jobs = SweepAll(@, OverlapSource, event_loop.tasks[t].seen),
          !.log = Append(@, t),
          !.tasks[t].pc = "run_update"]
  /\ OverlapFrame

\* lines 232-255: update_run and the success summary
OverlapRunUpdate(t) ==
  /\ event_loop.tasks[t].pc = "run_update"
  /\ CanRun(t)
  /\ LET task == event_loop.tasks[t]
     IN  event_loop' =
           [event_loop EXCEPT
              !.running = Holder(t, "done"),
              !.crawler_runs = UpdateRun(@, task.run_id, Len(task.batch),
                                         task.new, task.updated),
              !.log = Append(@, t),
              !.order = Append(@, t),
              !.tasks[t].pc = "done"]
  /\ OverlapFrame

\* crawl_daily_job -> crawl_all_sources -> crawl_source
ScheduledCrawl ==
  \/ OverlapBegin(1)
  \/ OverlapAdapterReturns(1)
  \/ OverlapStore(1)
  \/ OverlapSweep(1)
  \/ OverlapRunUpdate(1)

\* trigger_crawl -> crawl_source
ManualCrawl ==
  \/ OverlapBegin(2)
  \/ OverlapAdapterReturns(2)
  \/ OverlapStore(2)
  \/ OverlapSweep(2)
  \/ OverlapRunUpdate(2)

NextOverlap == ScheduledCrawl \/ ManualCrawl

SpecOverlap == InitOverlap /\ [][NextOverlap]_vars

\* ========================================================= filtered crawl
\* crawl_source from the adapter's output to the sweep, no store call
\* raising: the filters of lines 96-140 replace `jobs` before the store loop
\* and the sweep of lines 207-230 compares the store with what is left.
MaxCrawlFetched == 2    \* longest adapter output of a filtered crawl

CrawlSource == 1

\* what the adapter found on the board: three postings, each dated or not
CrawlIdentities ==
  { [external_id |-> "e1", url |-> "u1",
     title |-> << "Senior", "Backend", "Engineer" >>],
    [external_id |-> "e2", url |-> "u2", title |-> << "Sales", "Manager" >>],
    [external_id |-> "e3", url |-> "u3",
     title |-> << "Software", "Engineering", "Intern" >>] }

CrawlListings ==
  { [external_id |-> p.external_id, url |-> p.url, title |-> p.title,
     description |-> << >>, department |-> NoValue, posting_date |-> d] :
      p \in CrawlIdentities,
      d \in { NoDate, IsoDate(98, ""), IsoDate(75, "Z") } }

\* adapter outputs: each posting of the board at most once
CrawlOutputs ==
  { f \in SeqsUpTo(CrawlListings, MaxCrawlFetched) :
      \A i, j \in DOMAIN f : i # j => f[i].url # f[j].url }

\* the rows an earlier run of the source stored, all active
StoredRow(p) ==
  [id |-> CHOOSE n \in 1 .. 3 : p.external_id = << "e1", "e2", "e3" >>[n],
   source_id |-> CrawlSource, external_id |-> p.external_id, url |-> p.url,
   title |-> p.title, is_active |-> TRUE]

InitFilteredCrawl ==
  /\ CrawlerIdle
  /\ trigger_call = NoFrame
  /\ filter_call = NoFrame
  /\ adapter_call = NoFrame
  /\ retention_call = NoFrame
  /\ event_loop = NoFrame
  /\ \E fetched \in CrawlOutputs,
        hours \in { {}, { 1 }, { 24 } },
        targets \in TargetDepartments,
        n \in 0 .. 3 :
       LET table == { StoredRow(p) :
                        p \in { q \in CrawlIdentities : StoredRow(q).id <= n } }
       IN  crawl_call = [pc |-> "age", fetched |-> fetched, jobs |-> fetched,
                         max_post_age_hours |-> hours,
                         target_departments |-> targets, now |-> 100,
                         table |-> table, start_table |-> table]

CrawlFrame == UNCHANGED << crawlerVars, trigger_call, filter_call,
                           adapter_call, retention_call, event_loop >>

\* lines 99-106
CrawlFilterByAge ==
  /\ crawl_call.pc = "age"
  /\ crawl_call' =
       [crawl_call EXCEPT
          !.pc = "department",
          !.jobs = IF crawl_call.max_post_age_hours = {}
                   THEN @
                   ELSE LET h == CHOOSE x \in crawl_call.max_post_age_hours : TRUE
                        IN  FilteredByAge(@, crawl_call.now - h)]
  /\ CrawlFrame

\* lines 110-139
CrawlFilterByDepartment ==
  /\ crawl_call.pc = "department"
  /\ crawl_call' =
       [crawl_call EXCEPT
          !.pc = "store",
          !.jobs = IF crawl_call.target_departments.keywords = << >>
                   THEN @
                   ELSE FilteredJobs(@, crawl_call.target_departments.keywords)]
  /\ CrawlFrame

\* lines 142-230: the store loop over the filtered jobs, then the sweep
CrawlReconcile ==
  /\ crawl_call.pc = "store"
  /\ crawl_call' =
       [crawl_call EXCEPT
          !.pc = "returned",
          !.table = Reconcile(@, NextId(@), CrawlSource, crawl_call.jobs).table]
  /\ CrawlFrame

NextFilteredCrawl ==
  \/ CrawlFilterByAge
  \/ CrawlFilterByDepartment
  \/ CrawlReconcile

SpecFilteredCrawl == InitFilteredCrawl /\ [][NextFilteredCrawl]_vars

\* ================================================================ claims
\* crawl_source is about to hand its result to its caller.
AtReturn == pc = "return"

Returned(status) == AtReturn /\ result.status = status

BatchUrls(b) == { b[i].url : i \in 1 .. Len(b) }

\* The current invocation is a second crawl of the same source, directly
\* after a successful first one, without raised store calls in either.
CleanRun == store_failed = {} /\ ~sweep_failed /\ ~adapter_failed

CleanRerun ==
  /\ Returned("success") /\ CleanRun
  /\ prev.valid /\ prev.source_id = source_id
  /\ prev.status = "success" /\ prev.clean

\* Rows of the store a batch listing is kept in.
RowsOf(table, sid, job) ==
  { r \in table : r.source_id = sid /\ r.url = job.url
                  /\ r.external_id = job.external_id }

\* ---------------------------------------------------------------- C1
\* C1 (never-delete): no step of any crawl removes a Listing row; a row keeps
\* its id, its source and its external_id, only is_active and the field
\* values change.
C1_NeverDelete ==
  [][ \A r \in jobs : \E q \in jobs' :
        q.id = r.id /\ q.source_id = r.source_id /\ q.external_id = r.external_id ]_vars

\* A crawl hit a raised store call and retired a row that was active when
\* it started; the row is still in the store.
C1_Witness ==
  /\ AtReturn /\ faults > pre_faults
  /\ \E r \in jobs : ~r.is_active /\ \E q \in pre_jobs : q.id = r.id /\ q.is_active

C3_Idempotence ==
  (CleanRerun /\ prev.batch = batch) =>
    /\ result.jobs_new = 0
    /\ result.jobs_updated = Len(batch)
    /\ ActiveRows(jobs, source_id) = ActiveRows(pre_jobs, source_id)

\* The repeated batch has two listings, one of them without external_id.
C3_Witness ==
  /\ CleanRerun /\ prev.batch = batch /\ Len(batch) >= 2
  /\ \E i \in 1 .. Len(batch) : batch[i].external_id = NoValue

\* ---------------------------------------------------------------- C4
\* C4 (natural-key fallback): a stored listing without external_id has
\* exactly one row for its (source, url) key; when the source is crawled again
\* with the same batch the row is the one the first crawl wrote, it carries
\* the batch values, and the listing is counted as updated, not as new.
C4_NaturalKeyFallback ==
  Returned("success") =>
    \A i \in 1 .. Len(batch) :
      (i \notin store_failed /\ batch[i].external_id = NoValue) =>
        /\ Cardinality(RowsOf(jobs, source_id, batch[i])) = 1
        /\ (CleanRerun /\ prev.batch = batch) =>
             /\ { r.id : r \in RowsOf(jobs, source_id, batch[i]) }
                  = { r.id : r \in RowsOf(pre_jobs, source_id, batch[i]) }
             /\ \A r \in RowsOf(jobs, source_id, batch[i]) : r.is_active
             /\ result.jobs_new = 0
             /\ Len(batch) = 1 => result.jobs_updated = 1

\* The second crawl of a batch made of one listing without external_id.
C4_Witness ==
  /\ CleanRerun /\ prev.batch = batch /\ Len(batch) = 1
  /\ batch[1].external_id = NoValue
  /\ Cardinality(RowsOf(pre_jobs, source_id, batch[1])) = 1

\* ---------------------------------------------------------------- C5
\* C5 (partial-batch resilience): when exactly one listing of a batch of n
\* raises and no other store call of the invocation does, every other listing
\* of the batch is stored, the summary is a success with jobs_found = n and
\* jobs_new + jobs_updated = n - 1.
C5_PartialBatch ==
  (AtReturn /\ Cardinality(store_failed) = 1 /\ faults = pre_faults + 1) =>
    /\ result.status = "success"
    /\ result.jobs_found = Len(batch)
    /\ result.jobs_new + result.jobs_updated = Len(batch) - 1
    /\ \A i \in 1 .. Len(batch) :
         i \notin store_failed =>
           /\ \E r \in jobs : /\ r.source_id = source_id /\ r.is_active
                              /\ NaturalKey(r.source_id, r.external_id, r.url)
                                   = NaturalKey(source_id, batch[i].external_id, batch[i].url)
           /\ batch[i].url \in crawled_job_urls

\* The failing listing has a listing before it and a listing after it.
C5_Witness ==
  /\ AtReturn /\ Cardinality(store_failed) = 1 /\ faults = pre_faults + 1
  /\ \E i \in store_failed : 1 < i /\ i < Len(batch)

\* ---------------------------------------------------------------- C6
\* C6 (adapter-level failure reporting): whenever the adapter's fetch failed
\* as a whole, crawl_source returns status failed.
C6_AdapterFailureReported ==
  (AtReturn /\ adapter_failed) => result.status = "failed"

\* ---------------------------------------------------------------- C7
\* C7 (all-sources isolation): once the enabled sources are loaded the
\* iteration is never aborted, and crawl_all_sources returns one summary per
\* enabled source, in iteration order, with sources_crawled their number.
C7_AllSourcesIsolation ==
  /\ ca_pc = "raised" => ca_called = << >>
  /\ ca_pc = "done" =>
       /\ ca_called = EnabledSourceIds(job_sources)
       /\ Len(ca_return.results) = Len(ca_called)
       /\ ca_return.sources_crawled
            = Cardinality({ r \in job_sources : r.enabled })
       /\ \A i \in 1 .. Len(ca_called) :
            /\ ca_return.results[i].status \in { "success", "failed" }
            /\ ca_return.results[i].status = "success"
                 => ca_return.results[i].source_id = ca_called[i]

\* A source failed as a whole and a later source was still crawled.
C7_Witness ==
  /\ ca_pc = "done"
  /\ \E i, j \in 1 .. Len(ca_return.results) :
       /\ i < j
       /\ ca_return.results[i].status = "failed"
       /\ ca_return.results[j].status = "success"

\* ---------------------------------------------------------------- C8
\* C8 (structured results): neither crawl_source nor crawl_all_sources ever
\* lets an exception reach its caller.
C8_NeverPropagates == ~raised /\ ca_pc # "raised"

\* ---------------------------------------------------------------- C9
\* C9 (run-tracker lifecycle): when the adapter is invoked the invocation has
\* created exactly one crawler_runs row, in status started; when it returns a
\* success summary that row was updated exactly once, to completed with the
\* counts of the summary; a completed row is never modified again.
C9_StateOK ==
  /\ pc = "adapter" =>
       /\ Len(crawler_runs) = pre_runs + 1 /\ run_id = Len(crawler_runs)
       /\ crawler_runs[run_id].status = "started"
       /\ crawler_runs[run_id].source_id = source_id
       /\ run_writes[run_id] = 0
  /\ Returned("success") =>
       /\ Len(crawler_runs) = pre_runs + 1 /\ run_id = Len(crawler_runs)
       /\ crawler_runs[run_id].status = "completed"
       /\ crawler_runs[run_id].source_id = source_id
       /\ crawler_runs[run_id].jobs_found = result.jobs_found
       /\ crawler_runs[run_id].jobs_new = result.jobs_new
       /\ crawler_runs[run_id].jobs_updated = result.jobs_updated
       /\ run_writes[run_id] = 1

C9_RunLifecycle ==
  /\ []C9_StateOK
  /\ [][ \A i \in DOMAIN crawler_runs :
           crawler_runs[i].status = "completed"
             => crawler_runs'[i] = crawler_runs[i] ]_vars

\* A second run of a source completes with counts that differ from those of
\* its first, completed, run.
C9_Witness ==
  /\ Returned("success") /\ run_id = 2
  /\ crawler_runs[1].status = "completed"
  /\ crawler_runs[1].source_id = source_id
  /\ crawler_runs[1].jobs_new # crawler_runs[2].jobs_new

\* ---------------------------------------------------------------- C10
\* C10 (unsupported platform): for a source whose scraper_type is none of the
\* four supported kinds, crawl_source invokes no adapter, leaves the jobs
\* table as it found it, and returns status failed.
UnsupportedSource ==
  \E r \in job_sources : r.id = source_id /\ r.scraper_type \notin SupportedKinds

C10_UnsupportedFailsFast ==
  (pc # "idle" /\ UnsupportedSource) =>
    /\ ~adapter_called
    /\ jobs = pre_jobs
    /\ AtReturn => result.status = "failed"

\* The unsupported source is reported while the store holds active listings
\* of another source.
C10_Witness ==
  /\ AtReturn /\ UnsupportedSource
  /\ result.message = "Unknown scraper type"
  /\ \E r \in jobs : r.is_active

\* ---------------------------------------------------------------- C11
\* C11 (age filter): when the age step has run with a cutoff of h hours, the
\* jobs it leaves are, in order, exactly the fetched jobs whose posting_date
\* is absent or unparsable or whose instant is at or after now - h; with no
\* cutoff the jobs are the fetched jobs unchanged.
InstantOf(d) == d.wall - UtcOffset(d.suffix)

C11_Survives(job, cutoff) ==
  \/ job.posting_date.type # "iso"
  \/ InstantOf(job.posting_date) >= cutoff

C11_AgeFilter ==
  filter_call.pc = "department" =>
    IF filter_call.max_post_age_hours = {}
    THEN filter_call.jobs = filter_call.fetched
    ELSE \A h \in filter_call.max_post_age_hours :
           filter_call.jobs
             = SelectSeq(filter_call.fetched,
                         LAMBDA job : C11_Survives(job, filter_call.now - h))

\* a listing posted exactly at the cutoff was kept and another was dropped
C11_Witness ==
  /\ filter_call.pc = "department"
  /\ filter_call.max_post_age_hours # {}
  /\ Len(filter_call.jobs) = 1
  /\ Len(filter_call.fetched) = 2
  /\ \E h \in filter_call.max_post_age_hours :
       /\ filter_call.jobs[1].posting_date.type = "iso"
       /\ InstantOf(filter_call.jobs[1].posting_date) = filter_call.now - h

\* ---------------------------------------------------------------- C12
\* C12 (department filter and enrichment): when the department step has run
\* with a non-empty keyword list, the jobs it leaves are, in order, exactly
\* the jobs it was given whose title or description a keyword matches (or,
\* for a keyword containing "engineering", a discipline synonym followed by
\* "engineer"), each with department set to the first keyword; with no
\* keyword list the jobs are unchanged, department included.
C12_Matches(job, keywords) ==
  \E i \in DOMAIN keywords :
    \E text \in { LowerText(job.title), LowerText(job.description) } :
      \/ Search(KeywordPattern(keywords[i]), text)
      \/ ContainsEngineering(keywords[i]) /\ Search(VariationPattern, text)

C12_DepartmentFilter ==
  filter_call.pc = "store" =>
    LET given    == filter_call.filtered_by_age
        keywords == filter_call.target_departments.keywords
        kept     == SelectSeq(given, LAMBDA job : C12_Matches(job, keywords))
    IN  IF keywords = << >>
        THEN filter_call.jobs = given
        ELSE filter_call.jobs
               = [ i \in 1 .. Len(kept) |-> [kept[i] EXCEPT !.department = keywords[1]] ]

\* one listing was dropped and the survivor's department was replaced by the
\* first keyword, which is not the keyword that matched it
C12_Witness ==
  /\ filter_call.pc = "store"
  /\ Len(filter_call.target_departments.keywords) = 2
  /\ Len(filter_call.filtered_by_age) = 2
  /\ Len(filter_call.jobs) = 1
  /\ filter_call.jobs[1].department = "Sales"
  /\ \E i \in 1 .. 2 :
       /\ filter_call.filtered_by_age[i].department = "Platform"
       /\ filter_call.filtered_by_age[i].title = filter_call.jobs[1].title

\* ---------------------------------------------------------------- C13
\* C13 (single effective cutoff): the crawl trigger_crawl calls receives
\* exactly one hour count or none: the explicit hours when given; otherwise
\* the explicit days times 24 when given; otherwise the named window's hours
\* ("24h" 24, "7d" 168, "15d" 360, "30d" and "1m" 720).
C13_NamedWindows ==
  { << Str(<< "2", "4", "h" >>), 24 >>, << Str(<< "7", "d" >>), 168 >>,
    << Str(<< "1", "5", "d" >>), 360 >>, << Str(<< "3", "0", "d" >>), 720 >>,
    << Str(<< "1", "m" >>), 720 >> }

C13_SingleCutoff ==
  trigger_call.pc = "called" =>
    LET hours  == trigger_call.max_post_age_hours
        days   == trigger_call.max_post_age_days
        passed == trigger_call.crawl_hours
    IN  /\ Cardinality(passed) <= 1
        /\ hours # {} => passed = hours
        /\ hours = {} /\ days # {} => passed = { 24 * d : d \in days }
        /\ hours = {} /\ days = {} =>
             /\ \A nw \in C13_NamedWindows :
                  trigger_call.age_window = nw[1] => passed = { nw[2] }
             /\ trigger_call.age_window.null => passed = {}

\* all three parameters were given, each meaning a different hour count, and
\* the crawl was called
C13_Witness ==
  /\ trigger_call.pc = "called"
  /\ trigger_call.max_post_age_hours = { 48 }
  /\ trigger_call.max_post_age_days = { 7 }
  /\ trigger_call.age_window = Str(<< "3", "0", "d" >>)
  /\ trigger_call.crawl = "crawl_source"
  /\ trigger_call.crawl_hours = { 48 }

\* ---------------------------------------------------------------- C14
\* C14 (Platform-A URL branching): every job crawl_ashby returns has, for
\* its anchor's path, the url origin/slug/jobs/id when the path has a "jobs"
\* segment immediately after the slug and origin/slug/id otherwise, id being
\* the final path segment and the job's external_id.
\* The path of an href: what follows scheme and host of an absolute URL.
C14_Path(href) ==
  Parts(IF Len(href) >= 3 /\ href[1] = "https:" /\ href[2] = ""
        THEN SubSeq(href, 4, Len(href))
        ELSE href)

C14_UrlBranching ==
  (adapter_call.pc = "returned" /\ adapter_call.scraper_type = "ashby") =>
    \A i \in DOMAIN adapter_call.jobs :
      LET job  == adapter_call.jobs[i]
          path == C14_Path(job.href)
          id   == path[Len(path)]
      IN  /\ job.external_id = id
          /\ job.url = IF \E j \in 1 .. Len(path) - 1 :
                            path[j] = CompanySlug /\ path[j + 1] = "jobs"
                       THEN << Origin, CompanySlug, "jobs", id >>
                       ELSE << Origin, CompanySlug, id >>

\* ---------------------------------------------------------------- C19
\* C19 (per-item parse isolation): no adapter raises because of one
\* malformed item; it returns the jobs of the well-formed items.
C19_PerItemIsolation ==
  adapter_call.pc = "returned" => ~adapter_call.raised

\* ---------------------------------------------------------------- C15
\* C15 (order independence): when a run without store errors has reconciled
\* a batch whose listings have pairwise distinct natural keys and urls, then
\* reconciling any permutation of that batch against the store the run started
\* from gives the same rows (fields and is_active; ids are the store's own)
\* and the same found / new / updated counts.
C15_Distinct(sid, listings) ==
  \A i, j \in DOMAIN listings :
    i # j => /\ listings[i].url # listings[j].url
             /\ NaturalKey(sid, listings[i].external_id, listings[i].url)
                  # NaturalKey(sid, listings[j].external_id, listings[j].url)

C15_Fields(table) ==
  { [source_id |-> r.source_id, external_id |-> r.external_id, url |-> r.url,
     title |-> r.title, is_active |-> r.is_active] : r \in table }

C15_CleanSuccess == Returned("success") /\ faults = pre_faults /\ ~adapter_failed

C15_OrderIndependence ==
  (C15_CleanSuccess /\ C15_Distinct(source_id, batch)) =>
    LET first == Cardinality(pre_jobs) + 1
        ran   == Reconcile(pre_jobs, first, source_id, batch)
    IN  /\ ran.table = jobs
        /\ << ran.found, ran.new, ran.updated >>
             = << result.jobs_found, result.jobs_new, result.jobs_updated >>
        /\ \A p \in Permutations(DOMAIN batch) :
             LET other == Reconcile(pre_jobs, first, source_id,
                                    [ i \in DOMAIN batch |-> batch[p[i]] ])
             IN  /\ C15_Fields(other.table) = C15_Fields(jobs)
                 /\ << other.found, other.new, other.updated >>
                      = << ran.found, ran.new, ran.updated >>

\* ---------------------------------------------------------------- C16
\* C16 (update branch and reactivation): a store step whose listing matches
\* an existing row by natural key adds no row, overwrites that row's mutable
\* fields with the listing's, sets is_active and counts the listing as
\* updated; and when a run returns, every row that was inactive when the run
\* began and whose natural key a stored listing of the batch carries is active.
C16_Stored == pc = "store" /\ k' = k + 1 /\ store_failed' = store_failed

C16_UpdateStep ==
  (C16_Stored /\ DuplicateKeyRows(jobs, source_id, batch[k]) # {}) =>
    /\ { r.id : r \in jobs' } = { r.id : r \in jobs }
    /\ \A r \in DuplicateKeyRows(jobs, source_id, batch[k]) :
         \E q \in jobs' : /\ q.id = r.id
                          /\ q.title = batch[k].title
                          /\ q.url = batch[k].url
                          /\ q.is_active
    /\ updated_count' = updated_count + 1
    /\ new_count' = new_count

C16_Reactivated ==
  AtReturn =>
    \A r \in pre_jobs :
      (/\ r.source_id = source_id
       /\ ~r.is_active
       /\ \E i \in DOMAIN batch \ store_failed :
            NaturalKey(source_id, batch[i].external_id, batch[i].url)
              = NaturalKey(r.source_id, r.external_id, r.url))
      => \E q \in jobs : q.id = r.id /\ q.is_active

C16_UpdateAndReactivation == [][C16_UpdateStep]_vars /\ []C16_Reactivated

\* a retired listing reappeared with a new url and title: its row is active
\* again with the new values and the run counted one update
C16_Witness ==
  /\ Returned("success")
  /\ result.jobs_updated = 1
  /\ result.jobs_new = 0
  /\ \E r \in pre_jobs : \E q \in jobs :
       /\ r.source_id = source_id /\ ~r.is_active
       /\ q.id = r.id /\ q.is_active
       /\ q.url # r.url /\ q.title # r.title

\* ---------------------------------------------------------------- C17
\* C17 (seen-set completeness): when the deactivation sweep of a run begins,
\* the seen set holds the url of every listing of the filtered batch.
C17_SeenSetComplete ==
  pc = "sweep_query" => BatchUrls(batch) \subseteq crawled_job_urls

\* ---------------------------------------------------------------- C18
\* C18 (sweep resilience): when a run returns after one deactivation of its
\* sweep raised, at most the row of that deactivation is still an active row
\* of the source with a url outside the seen set.
C18_RowRaised == AtReturn /\ sweep_failed /\ active_jobs # {}

C18_SweepResilience ==
  C18_RowRaised =>
    Cardinality({ r \in ActiveRows(jobs, source_id) : r.url \notin crawled_job_urls })
      <= faults - pre_faults

\* ---------------------------------------------------------------- C20
\* C20 (cross-source frame): no step of a crawl_source invocation for source
\* S adds, changes or deactivates a jobs row of another source, and none
\* changes a crawler_runs row other than the invocation's own; between
\* invocations neither table changes.
C20_Step ==
  IF pc = "idle"
  THEN jobs' = jobs
  ELSE /\ { r \in jobs' : r.source_id # source_id }
            = { r \in jobs : r.source_id # source_id }
       /\ \A i \in DOMAIN crawler_runs :
            i # run_id => crawler_runs'[i] = crawler_runs[i]

C20_CrossSourceFrame == [][C20_Step]_vars

\* a run changed rows of its own source while another source had an active
\* row whose url the run did not see, and another invocation's run row exists
C20_Witness ==
  /\ Returned("success")
  /\ ~sweep_failed
  /\ jobs # pre_jobs
  /\ Len(crawler_runs) >= 2
  /\ \E r \in jobs : /\ r.source_id # source_id
                     /\ r.is_active
                     /\ r.url \notin crawled_job_urls

\* ---------------------------------------------------------------- C21
\* C21 (write-then-sweep ordering): a step deactivates a row only in the
\* sweep, after every listing of the batch was stored or skipped; and between
\* the store loop's start and the sweep's start every stored batch listing's
\* row is active and every row of the source that was active when the run
\* began is still active.
C21_DeactivatingStep ==
  \E r \in jobs : r.is_active /\ \E q \in jobs' : q.id = r.id /\ ~q.is_active

C21_Step == C21_DeactivatingStep => (pc = "sweep" /\ k = Len(batch) + 1)

C21_BeforeSweep ==
  pc \in { "store", "sweep_query" } =>
    /\ \A r \in pre_jobs :
         (r.source_id = source_id /\ r.is_active)
           => \E q \in jobs : q.id = r.id /\ q.is_active
    /\ \A i \in (1 .. k - 1) \ store_failed :
         \E q \in jobs :
           /\ NaturalKey(q.source_id, q.external_id, q.url)
                = NaturalKey(source_id, batch[i].external_id, batch[i].url)
           /\ q.is_active

C21_WriteThenSweep == [][C21_Step]_vars /\ []C21_BeforeSweep

\* the store loop is over, a new listing was written, and a row of the
\* source whose url the batch lacks is still active
C21_Witness ==
  /\ pc = "sweep_query"
  /\ k > 1
  /\ store_failed = {}
  /\ \E r \in jobs : /\ r.source_id = source_id /\ r.is_active
                     /\ r \in pre_jobs
                     /\ r.url \notin BatchUrls(batch)
  /\ \E q \in jobs : q.source_id = source_id /\ q.is_active /\ q \notin pre_jobs

\* ---------------------------------------------------------------- C23
\* C23 (count invariant): every completed crawler_runs row has
\* jobs_new >= 0, jobs_updated >= 0 and jobs_new + jobs_updated <= jobs_found;
\* and when a run returns success, its summary and its run row carry
\* jobs_found = size of the filtered batch, and jobs_new + jobs_updated
\* equals jobs_found exactly when no listing's store raised.
C23_Bounds(c) ==
  /\ c.jobs_new >= 0
  /\ c.jobs_updated >= 0
  /\ c.jobs_new + c.jobs_updated <= c.jobs_found

C23_CountInvariant ==
  /\ \A i \in DOMAIN crawler_runs :
       crawler_runs[i].status = "completed" => C23_Bounds(crawler_runs[i])
  /\ Returned("success") =>
       /\ C23_Bounds(result)
       /\ result.jobs_found = Len(batch)
       /\ (result.jobs_new + result.jobs_updated = result.jobs_found)
            <=> (store_failed = {})
       /\ crawler_runs[run_id].status = "completed"
       /\ << crawler_runs[run_id].jobs_found, crawler_runs[run_id].jobs_new,
             crawler_runs[run_id].jobs_updated >>
            = << result.jobs_found, result.jobs_new, result.jobs_updated >>

\* a run of three listings returned success after the store of one raised
C23_Witness ==
  /\ Returned("success")
  /\ result.jobs_found = 3
  /\ result.jobs_new + result.jobs_updated = 2
  /\ Cardinality(store_failed) = 1

\* ---------------------------------------------------------------- C24
\* C24 (no retirement of a listing seen in the crawl): when a run returns,
\* every row of the source that was active when the run began and whose url
\* is in the filtered batch is still active.
C24_SeenStaysActive ==
  AtReturn =>
    \A r \in pre_jobs :
      (r.source_id = source_id /\ r.is_active /\ r.url \in BatchUrls(batch))
        => \E q \in jobs : q.id = r.id /\ q.is_active

\* ---------------------------------------------------------------- C25
\* C25 (adapter failure does not retire listings): when a run returns after
\* its adapter's fetch failed as a whole, every row of the source that was
\* active when the run began is still active and the run's crawler_runs row
\* is not completed.
C25_AdapterFailureKeepsListings ==
  (AtReturn /\ adapter_failed) =>
    /\ \A r \in pre_jobs :
         (r.source_id = source_id /\ r.is_active)
           => \E q \in jobs : q.id = r.id /\ q.is_active
    /\ \A i \in DOMAIN crawler_runs :
         i > pre_runs => crawler_runs[i].status # "completed"

\* ---------------------------------------------------------------- C26
\* C26 as stated (current-truth snapshot): when a run returns success and no
\* store call of its store loop or sweep raised, the urls of the active rows
\* of the source are exactly the urls of the filtered batch.
C26_NoStoreFailure == Returned("success") /\ store_failed = {} /\ ~sweep_failed

C26_ActiveUrls == { r.url : r \in ActiveRows(jobs, source_id) }

C26_SnapshotAsStated == C26_NoStoreFailure => C26_ActiveUrls = BatchUrls(batch)

C26_DistinctKeys ==
  \A i, j \in DOMAIN batch :
    i # j => NaturalKey(source_id, batch[i].external_id, batch[i].url)
               # NaturalKey(source_id, batch[j].external_id, batch[j].url)

\* C26 (amended): ... and the listings of the batch have pairwise distinct
\* natural keys, the urls of the active rows of the source are exactly the
\* urls of the filtered batch; without that condition they are a subset.
C26_Snapshot ==
  C26_NoStoreFailure =>
    /\ C26_ActiveUrls \subseteq BatchUrls(batch)
    /\ C26_DistinctKeys => C26_ActiveUrls = BatchUrls(batch)

\* a run replaced the source's active listings: one row was retired and one
\* created by a batch of listings with distinct keys
C26_Witness ==
  /\ C26_NoStoreFailure
  /\ C26_DistinctKeys
  /\ batch # << >>
  /\ \E r \in jobs : r.source_id = source_id /\ ~r.is_active
                     /\ \E q \in pre_jobs : q.id = r.id /\ q.is_active
  /\ \E r \in jobs : r.source_id = source_id /\ r.is_active
                     /\ \A q \in pre_jobs : q.id # r.id
  /\ C26_ActiveUrls = BatchUrls(batch)

\* ---------------------------------------------------------------- C27
C27_RowsCreated == { r \in jobs : \A q \in pre_jobs : q.id # r.id }

\* C27 (counter accuracy): when a run returns success, jobs_new equals the
\* number of rows of jobs the run created, and the remaining stored listings
\* (jobs_updated) were written onto rows that already existed.
C27_CounterAccuracy ==
  Returned("success") => result.jobs_new = Cardinality(C27_RowsCreated)

\* ---------------------------------------------------------------- C28
\* rows of crawler_runs inserted by the current invocation
C28_OwnRuns == { i \in DOMAIN crawler_runs : i > pre_runs }

C28_StatusStep ==
  \A i \in DOMAIN crawler_runs :
    /\ i \in DOMAIN crawler_runs'
    /\ crawler_runs'[i].status # crawler_runs[i].status
         => /\ crawler_runs[i].status = "started"
            /\ crawler_runs'[i].status = "completed"

C28_FailedNotCompleted ==
  Returned("failed") =>
    \A i \in C28_OwnRuns : crawler_runs[i].status # "completed"

\* C28 (run status on failure): the status of a crawler_runs row changes only
\* from started to completed and never back, and whenever crawl_source
\* returns a failure result the row it inserted is not completed.
C28_RunStatusOnFailure == [][C28_StatusStep]_vars /\ []C28_FailedNotCompleted

\* the final run update of a run that wrote listings raised: the run returns
\* failed, its row is still started, and an earlier run's row is completed
C28_Witness ==
  /\ Returned("failed")
  /\ jobs # pre_jobs
  /\ \E i \in C28_OwnRuns : crawler_runs[i].status = "started"
  /\ \E i \in DOMAIN crawler_runs : crawler_runs[i].status = "completed"

\* ---------------------------------------------------------------- C22
\* C22 (retention safety): every row archive_old_jobs has deleted from jobs
\* had no application and no cover letter when it was deleted and had a copy
\* in jobs_archived with its id as original_job_id, whatever other clients
\* and the clock did between the archive insert and the delete.
C22_RetentionSafety ==
  retention_call.pc # "none" =>
    \A d \in retention_call.deleted :
      ~d.applied /\ ~d.lettered /\ d.archived

\* ---------------------------------------------------------------- C29
C29_Overlapping == event_loop.pc = "loop"

\* the store writes of one invocation are contiguous in the order of writes
C29_NoInterleaving ==
  \A i, j, m \in DOMAIN event_loop.log :
    (i < j /\ j < m /\ event_loop.log[i] = event_loop.log[m])
      => event_loop.log[j] = event_loop.log[i]

\* a run row is completed only by the invocation that inserted it, with that
\* invocation's counts
C29_OwnRunRow ==
  /\ \A t, u \in TaskIds :
       (t # u /\ event_loop.tasks[t].run_id # 0)
         => event_loop.tasks[t].run_id # event_loop.tasks[u].run_id
  /\ \A t \in TaskIds :
       LET task == event_loop.tasks[t]
       IN  task.run_id # 0 =>
             LET row == event_loop.crawler_runs[task.run_id]
             IN  IF task.pc = "done"
                 THEN row = [source_id |-> OverlapSource, status |-> "completed",
                             jobs_found |-> Len(task.batch),
                             jobs_new |-> task.new,
                             jobs_updated |-> task.updated]
                 ELSE row.status = "started"

\* both invocations returned: the table is the one two runs in a row, in
\* the order in which they reconciled, leave behind
C29_LastBatchDecides ==
  Len(event_loop.order) = 2 =>
    LET first  == event_loop.tasks[event_loop.order[1]].batch
        last   == event_loop.tasks[event_loop.order[2]].batch
        mid    == Reconcile(event_loop.start_jobs, NextId(event_loop.start_jobs),
                            OverlapSource, first).table
        final  == Reconcile(mid, NextId(mid), OverlapSource, last).table
    IN  /\ event_loop.jobs = final
        /\ { r.url : r \in ActiveRows(event_loop.jobs, OverlapSource) }
             \subseteq BatchUrls(last)

C30_ReturnedStaysActive ==
  crawl_call.pc = "returned" =>
    \A r \in crawl_call.start_table :
      (r.is_active /\ \E i \in DOMAIN crawl_call.fetched :
                         crawl_call.fetched[i].url = r.url)
        => \E q \in crawl_call.table : q.id = r.id /\ q.is_active

====
